---- MODULE Spec2Model ----
(***************************************************************************)
(* Model of the Dudley layout arena (src/dudley/layout.py): the Layout     *)
(* list, its append operations, the dict / type facade handles, the        *)
(* dimension codec and the open-compound life cycle.                       *)
(*                                                                         *)
(* Reading conventions.  layout.py is unfinished code: several names it    *)
(* uses are bound nowhere.  Wherever a name has one evident referent the   *)
(* model reads it as that referent and keeps the logic as written:         *)
(*   - `layout` inside Layout methods (decode_dim, add_type) is `self`;    *)
(*   - `_LItem[itype]` is the table of handle classes by item kind;        *)
(*   - `parent.get(name)` in add_item is `pitem.get(name)`;                *)
(*   - `parent.itemid` in _Data.__init__ is the parent id passed in;       *)
(*   - `Layout.primid` is keyed by primitive name;                         *)
(*   - `item.align` / `item.size` of a type handle are the _Type fields.   *)
(* A name with no referent (listid in add_item, add_prim) makes the call   *)
(* raise at that point, with whatever was done before it kept.             *)
(* Python None is the integer None for integer fields, "None" for names    *)
(* and the empty map for the name maps (DictParams.__init__ normalises a   *)
(* None map to {} itself).                                                 *)
(***************************************************************************)
EXTENDS Integers, Sequences, FiniteSets, TLC

VARIABLES
    arena,     \* the Layout list: arena[i+1] is the item with id i
    lparams,   \* Layout.params: lparams[pid+1] is the id of dynamic parameter pid
    last,      \* the last facade call: what it was given and what it answered
    codec,     \* the dimension codec's scratch: input, encoded and decoded value
    bison,     \* the locals of BisonParser._call (src/dudley/bisonp.py)
    tokzr,     \* a DTokenizer (src/pyparse.py) and the calls made on it
    parser,    \* a Parser (src/dudley/parser.py): container, lookahead, tokens
    dparser,   \* a DParser (src/pyparse.py): its container stack
    hdf,       \* an HDF5 reader (src/dudley/hdf5meta.py) under construction
    shared,    \* the object headers HDF5.handle_shared is walking
    heap,      \* the fractal heap HDF5.fractal_heap is walking
    group      \* an HDF5Group and the header messages delivered to it

hdfvars == <<hdf, shared, heap, group>>

vars == <<arena, lparams, last, codec, bison, tokzr, parser, dparser, hdfvars>>

None == -9999
NoName == "None"

D_PRIM == 0
D_DATA == 1
D_PARAM == 2
D_DICT == 3
D_LIST == 4
D_TYPE == 5

(* ---------------------------------------------------------------------- *)
(* Bounds                                                                 *)
(* ---------------------------------------------------------------------- *)
MaxItems == 4        \* arena length at which the facade stops appending
MaxParamId == 3      \* largest parameter id given to the codec
MaxDim == 3          \* largest literal dimension given to the codec

MaxRank == 2         \* longest shape given to the codec
MaxAddress == 3      \* largest address given to Address

MaxState == 2        \* largest parser state; it is the final state
MaxStack == 5        \* deepest parse stack of the table-driven parser
MaxErrs == 2         \* most syntax errors the table-driven parser counts

MaxDepth == 4        \* nested calls of get_fhib the interpreter allows
MaxDelivered == 4    \* header messages delivered to one object
MaxHeaders == 2      \* object headers in a file
MaxMsgs == 2         \* messages in one object header
MaxProbes == 4       \* superblock offsets a file is large enough to hold
MaxTokens == 2       \* longest token stream given to a tokenizer
MaxCalls == 4        \* most calls made on one tokenizer

MaxOffset == 31      \* LParam.__add__ admits offsets in -31..31

Names == {"a", "b"}

(* ---------------------------------------------------------------------- *)
(* Python integer operators on unbounded two's-complement integers        *)
(* ---------------------------------------------------------------------- *)
RECURSIVE BitAnd(_, _)
BitAnd(a, b) ==
    IF a = 0 \/ b = 0 THEN 0
    ELSE IF a = -1 THEN b
    ELSE IF b = -1 THEN a
    ELSE 2 * BitAnd(a \div 2, b \div 2) + (a % 2) * (b % 2)

RECURSIVE BitOr(_, _)
BitOr(a, b) ==
    IF a = 0 THEN b
    ELSE IF b = 0 THEN a
    ELSE IF a = -1 \/ b = -1 THEN -1
    ELSE 2 * BitOr(a \div 2, b \div 2) + (IF a % 2 = 1 \/ b % 2 = 1 THEN 1 ELSE 0)

ShiftLeft6(a) == a * 64
ShiftRight6(a) == a \div 64     \* arithmetic shift: rounds toward minus infinity

(* ---------------------------------------------------------------------- *)
(* Primitive catalog                                                      *)
(* ---------------------------------------------------------------------- *)
Prim(o, k, s) ==
    [order |-> o, kind |-> k, size |-> s,
     align |-> IF k = "c" THEN s \div 2 ELSE s]

NoPrim == [order |-> "", kind |-> "", size |-> 0, align |-> 0]

PrimRows(o) ==
    << Prim(o, "u", 2), Prim(o, "i", 2), Prim(o, "f", 2), Prim(o, "c", 4), Prim(o, "U", 2),
       Prim(o, "u", 4), Prim(o, "i", 4), Prim(o, "f", 4), Prim(o, "c", 8), Prim(o, "U", 4),
       Prim(o, "u", 8), Prim(o, "i", 8), Prim(o, "f", 8), Prim(o, "c", 16), NoPrim >>

prim ==
    << Prim("|", "u", 1), Prim("|", "i", 1), Prim("|", "b", 1), Prim("|", "S", 1),
       Prim("|", "U", 1) >>
    \o PrimRows("|") \o PrimRows("<") \o PrimRows(">")

IsPrim(i) == i \in 1..Len(prim) /\ prim[i] # NoPrim

\* the names of the primitives the facade is given in this model
PrimName ==
    [i \in {9, 18, 27, 33} |->
        CASE i = 9 -> "|c4" [] i = 18 -> "|f8" [] i = 27 -> "<i4" [] i = 33 -> "<f8"]

\* "|" + name for the unprefixed names the facade is given in this model
BarName == [n \in {"f8"} |-> "|f8"]

primid(name) ==
    IF \E i \in DOMAIN PrimName : PrimName[i] = name
    THEN -(CHOOSE i \in DOMAIN PrimName : PrimName[i] = name)
    ELSE None

(* ---------------------------------------------------------------------- *)
(* Dimension codec                                                        *)
(* ---------------------------------------------------------------------- *)
\* a dimension as the caller holds it: an integer, an LParam or a ParamRef
LitDim(d) == [k |-> "int", d |-> d, p |-> 0, off |-> 0]
ParamDim(p) == [k |-> "LParam", d |-> 0, p |-> p, off |-> 0]
RefDim(p, off) == [k |-> "ParamRef", d |-> 0, p |-> p, off |-> off]

encode_dim(d) ==
    IF d.k = "int"
    THEN IF d.d < -1 THEN [err |-> "ValueError", v |-> 0]
         ELSE [err |-> "", v |-> d.d]
    ELSE LET offset == IF d.k = "ParamRef" THEN d.off ELSE 0
         IN  [err |-> "", v |-> BitOr(ShiftLeft6(-d.p), offset + 32)]

decode_dim(d) ==
    IF d >= -1 THEN LitDim(d)
    ELSE LET offset == BitAnd(d, 63) - 32
             paramid == -ShiftRight6(d)
         IN  IF offset # 0 THEN RefDim(paramid, offset) ELSE ParamDim(paramid)

\* encode_shape: [err, v].  A shape that is None or () is <<>>: both are the
\* false value every reader of a shape tests for
RECURSIVE encode_shape(_)
encode_shape(shape) ==
    IF shape = <<>> THEN [err |-> "", v |-> <<>>]
    ELSE LET n == encode_dim(Head(shape))
             rest == encode_shape(Tail(shape))
         IN  IF n.err # "" THEN [err |-> n.err, v |-> <<>>]
             ELSE IF rest.err # "" THEN rest
             ELSE [err |-> "", v |-> <<n.v>> \o rest.v]

\* decode_shape
decode_shape(shape) == [i \in DOMAIN shape |-> decode_dim(shape[i])]

\* Address.__new__ keeping the address as the integer it is
Address_plain(address) ==
    IF address < -1 THEN [err |-> "ValueError", v |-> 0]
    ELSE [err |-> "", v |-> address]

\* Address.__new__: [err, v], v the integer the Address instance is
Address(address) ==
    IF address < -1 THEN [err |-> "ValueError", v |-> 0]
    ELSE [err |-> "", v |-> -2 - address]

\* Address.address
AddressOf(self) == -2 - self

\* the parameter and offset a decoded dimension refers to
RefOf(d) == <<d.p, IF d.k = "ParamRef" THEN d.off ELSE 0>>
IsRef(d) == d.k \in {"LParam", "ParamRef"}

CodecInputs ==
    {LitDim(d) : d \in -2..MaxDim}
    \cup {ParamDim(p) : p \in 1..MaxParamId}
    \cup {RefDim(p, off) : p \in 1..MaxParamId, off \in -MaxOffset..MaxOffset}

\* the shapes given to encode_shape
RECURSIVE ShapesOfRank(_, _)
ShapesOfRank(dims, n) ==
    IF n = 0 THEN {<<>>}
    ELSE {<<d>> \o s : d \in dims, s \in ShapesOfRank(dims, n - 1)}

ShapeInputs ==
    LET dims == {LitDim(-2), LitDim(-1), LitDim(2), ParamDim(2)}
    IN  UNION {ShapesOfRank(dims, n) : n \in 0..MaxRank}

CodecIdle ==
    [pc |-> "idle", in |-> LitDim(0), enc |-> 0, out |-> LitDim(0),
     shape |-> <<>>, encs |-> <<>>]

CodecEncode ==
    /\ codec.pc = "idle"
    /\ \E d \in CodecInputs :
          LET r == encode_dim(d)
          IN  codec' = [pc |-> IF r.err = "" THEN "encoded" ELSE "rejected",
                        in |-> d, enc |-> r.v, out |-> LitDim(0),
                        shape |-> <<>>, encs |-> <<>>]
    /\ UNCHANGED <<arena, lparams, last, bison, tokzr, parser, dparser, hdfvars>>

CodecDecode ==
    /\ codec.pc = "encoded"
    /\ codec' = [codec EXCEPT !.pc = "decoded", !.out = decode_dim(codec.enc)]
    /\ UNCHANGED <<arena, lparams, last, bison, tokzr, parser, dparser, hdfvars>>

\* layout.encode_shape(shape)
CodecEncodeShape ==
    /\ codec.pc = "idle"
    /\ \E shape \in ShapeInputs :
          LET r == encode_shape(shape)
          IN  codec' = [CodecIdle EXCEPT
                           !.pc = IF r.err = "" THEN "shape" ELSE "shape rejected",
                           !.shape = shape, !.encs = r.v]
    /\ UNCHANGED <<arena, lparams, last, bison, tokzr, parser, dparser, hdfvars>>

\* layout.decode_shape(encoded)
CodecDecodeShape ==
    /\ codec.pc = "shape"
    /\ codec' = [codec EXCEPT !.pc = "shape decoded", !.shape = decode_shape(codec.encs)]
    /\ UNCHANGED <<arena, lparams, last, bison, tokzr, parser, dparser, hdfvars>>

\* Address(address)
AddressNew ==
    /\ codec.pc = "idle"
    /\ \E address \in -3..MaxAddress :
          LET r == Address(address)
          IN  codec' = [CodecIdle EXCEPT
                           !.pc = IF r.err = "" THEN "address" ELSE "address rejected",
                           !.in = LitDim(address), !.enc = r.v]
    /\ UNCHANGED <<arena, lparams, last, bison, tokzr, parser, dparser, hdfvars>>

\* a.address
AddressRead ==
    /\ codec.pc = "address"
    /\ codec' = [codec EXCEPT !.pc = "address read", !.out = LitDim(AddressOf(codec.enc))]
    /\ UNCHANGED <<arena, lparams, last, bison, tokzr, parser, dparser, hdfvars>>

CodecReset ==
    /\ codec.pc \in {"decoded", "rejected", "shape decoded", "shape rejected",
                     "address read", "address rejected"}
    /\ codec' = CodecIdle
    /\ UNCHANGED <<arena, lparams, last, bison, tokzr, parser, dparser, hdfvars>>

(* ---------------------------------------------------------------------- *)
(* Arena items                                                            *)
(* ---------------------------------------------------------------------- *)
NoMap == <<>>

\* _Dict.__init__
NewDict(parent, name) ==
    [itype |-> D_DICT, parent |-> parent, name |-> name,
     items |-> NoMap, params |-> NoMap, types |-> NoMap]

\* _List.__init__
NewList(parent, name) ==
    [itype |-> D_LIST, parent |-> parent, name |-> name, items |-> <<>>]

\* _Data.__init__, after its alignment check
NewData(parent, name, typeid, shape, align, filt) ==
    [itype |-> D_DATA, parent |-> parent, name |-> name, typeid |-> typeid,
     shape |-> shape, align |-> align, filt |-> filt]

\* _Param.__init__, after its alignment check
NewParam(parent, name, pid, typeid, align) ==
    [itype |-> D_PARAM, parent |-> parent, name |-> name, pid |-> pid,
     typeid |-> typeid, align |-> align]

\* _Type.__init__ with the parent and the members taken for one another
NewType_swapped(parent, name, members) ==
    [itype |-> D_TYPE, parent |-> members, name |-> name, members |-> parent,
     size |-> 0, align |-> -1]

\* _Type.__init__: members is an item id for a typedef, None for the {} of a compound
NewType(parent, name, members) ==
    [itype |-> D_TYPE, parent |-> parent, name |-> name, members |-> members,
     size |-> 0, align |-> -1]

\* _Data.__init__ and _Param.__init__ reject a positive alignment that is no power of two
IllegalAlign(align) ==
    align # None /\ align # 0 /\ align > 0 /\ BitAnd(align, align - 1) # 0

\* layout[i], with Python's negative index for the last item
Item(ar, i) == IF i < 0 THEN ar[Len(ar) + 1 + i] ELSE ar[i + 1]
Ids(ar) == 0..(Len(ar) - 1)
IdsOf(ar, itype) == {i \in Ids(ar) : Item(ar, i).itype = itype}

(* ---------------------------------------------------------------------- *)
(* Name lookup                                                            *)
(* ---------------------------------------------------------------------- *)
\* LDict.get: the id bound to name in the dict's own item map, else None
LDictGet(ar, d, name) ==
    LET items == Item(ar, d).items
    IN  IF name \in DOMAIN items THEN items[name] ELSE None

\* truth value of what LDict.get returned: None is false, an LList handle is
\* its length, every other handle is true
Truthy(ar, id) ==
    /\ id # None
    /\ Item(ar, id).itype = D_LIST => Len(Item(ar, id).items) > 0

\* the loop `while _dict.itype != D_DICT: _dict = layout[_dict.parent]`
RECURSIVE EnclosingDict(_, _)
EnclosingDict(ar, i) ==
    IF Item(ar, i).itype = D_DICT THEN i ELSE EnclosingDict(ar, Item(ar, i).parent)

\* _get_paramid that looks in the dict's own map only
_get_paramid_own(ar, d, param) ==
    LET params == Item(ar, d).params
    IN  IF param \in DOMAIN params THEN [err |-> "", id |-> params[param]]
        ELSE [err |-> "KeyError", id |-> None]

\* _Dict._get_paramid for a name: [err, id]
RECURSIVE _get_paramid(_, _, _)
_get_paramid(ar, d, param) ==
    LET params == Item(ar, d).params
        parent == Item(ar, d).parent
    IN  IF param \in DOMAIN params THEN [err |-> "", id |-> params[param]]
        ELSE IF parent = None THEN [err |-> "KeyError", id |-> None]
        ELSE _get_paramid(ar, EnclosingDict(ar, parent), param)

\* DictParams.__getitem__: [err, id]
RECURSIVE DictParamsGetItem(_, _, _)
DictParamsGetItem(ar, d, name) ==
    LET params == Item(ar, d).params
        parent == Item(ar, d).parent
    IN  IF name \in DOMAIN params THEN [err |-> "", id |-> params[name]]
        ELSE IF parent = None THEN [err |-> "KeyError", id |-> None]
        ELSE DictParamsGetItem(ar, EnclosingDict(ar, parent), name)

\* DictTypes.__getitem__: [err, id]
RECURSIVE DictTypesGetItem(_, _, _)
DictTypesGetItem(ar, d, name) ==
    LET types == Item(ar, d).types
        parent == Item(ar, d).parent
    IN  IF name \in DOMAIN types THEN [err |-> "", id |-> types[name]]
        ELSE IF parent = None THEN [err |-> "KeyError", id |-> None]
        ELSE DictTypesGetItem(ar, EnclosingDict(ar, parent), name)

\* a datatype as the caller gives it: a name, an LType handle or None
TypeName(n) == [k |-> "name", nm |-> n, id |-> 0]
TypeHandle(t) == [k |-> "LType", nm |-> NoName, id |-> t]
TypeNone == [k |-> "None", nm |-> NoName, id |-> 0]

\* the root-dict branch of _Dict._get_typeid: the primitive of that name
PrimLookup(datatype) ==
    LET name == IF datatype \in DOMAIN BarName THEN BarName[datatype] ELSE datatype
        typeid == primid(name)
    IN  IF typeid # None
        THEN IF name # datatype
             THEN [err |-> "AttributeError", id |-> None]   \* layout.add_prim
             ELSE [err |-> "", id |-> typeid]
        ELSE [err |-> "KeyError", id |-> None]

\* the name branch of _Dict._get_typeid
RECURSIVE TypeIdOfName(_, _, _)
TypeIdOfName(ar, d, datatype) ==
    LET types == Item(ar, d).types
        parent == Item(ar, d).parent
    IN  IF datatype \in DOMAIN types THEN [err |-> "", id |-> types[datatype]]
        ELSE IF parent = None THEN PrimLookup(datatype)
        ELSE TypeIdOfName(ar, EnclosingDict(ar, parent), datatype)

\* _Dict._get_typeid: [err, id]
_get_typeid(ar, d, datatype) ==
    IF datatype.k = "LType" THEN [err |-> "", id |-> datatype.id]
    ELSE IF datatype.k = "None" THEN [err |-> "", id |-> 0]
    ELSE TypeIdOfName(ar, d, datatype.nm)

\* LItem.get_typeid
get_typeid(ar, itemid, datatype) ==
    _get_typeid(ar, EnclosingDict(ar, itemid), datatype)

(* ---------------------------------------------------------------------- *)
(* Layout.add_item                                                        *)
(* ---------------------------------------------------------------------- *)
\* what a call leaves behind: the arena, Layout.params, the error raised
\* ("" if none) and the value returned
Raised(ar, lp, err) == [ar |-> ar, lp |-> lp, err |-> err, ret |-> None]
Returned(ar, lp, ret) == [ar |-> ar, lp |-> lp, err |-> "", ret |-> ret]

\* the value of a set or append: the dict class, the list class, or a
\* datatype with the optional shape, align and filt
DictClass == [cls |-> "dict", datatype |-> TypeNone, shape |-> <<>>, align |-> 0]
ListClass == [cls |-> "list", datatype |-> TypeNone, shape |-> <<>>, align |-> 0]
DataValue(datatype, shape, align) ==
    [cls |-> "data", datatype |-> datatype, shape |-> shape, align |-> align]

add_item(ar, lp, parent, name, value) ==
    LET ptype == Item(ar, parent).itype
    IN  IF ptype = D_DICT /\ Truthy(ar, LDictGet(ar, parent, name))
        THEN Raised(ar, lp, "TypeError")
        ELSE IF value.cls = "dict"
        THEN IF ptype = D_TYPE THEN Raised(ar, lp, "TypeError")
             ELSE Returned(Append(ar, NewDict(parent, name)), lp, Len(ar))
        ELSE IF value.cls = "list"
        THEN IF ptype = D_TYPE THEN Raised(ar, lp, "TypeError")
             ELSE Raised(ar, lp, "NameError")               \* listid
        ELSE IF ptype = D_TYPE /\ value.datatype.k = "None"
        THEN Raised(ar, lp, "TypeError")
        ELSE LET t == get_typeid(ar, parent, value.datatype)
             IN  IF t.err # "" THEN Raised(ar, lp, t.err)
                 ELSE IF IllegalAlign(value.align) THEN Raised(ar, lp, "ValueError")
                 ELSE Returned(Append(ar, NewData(parent, name, t.id, value.shape,
                                                  value.align, None)),
                               lp, Len(ar))

(* ---------------------------------------------------------------------- *)
(* Datum and parameter handles                                            *)
(* ---------------------------------------------------------------------- *)
\* LParam.value: the value of a fixed parameter, None for a dynamic one
LParamValue(ar, p) ==
    IF Item(ar, p).typeid = None THEN Item(ar, p).pid ELSE None

\* ParamRef.value
ParamRefValue(ar, p, offset) ==
    LET value == LParamValue(ar, p)
    IN  IF value = None THEN None
        ELSE IF value <= 0 THEN value
        ELSE IF value + offset > 0 THEN value + offset ELSE 0

\* the value LData.size gives to one decoded dimension
DimValue(ar, d) ==
    LET dd == decode_dim(d)
    IN  IF dd.k = "int" THEN dd.d
        ELSE IF dd.k = "LParam" THEN LParamValue(ar, dd.p)
        ELSE ParamRefValue(ar, dd.p, dd.off)

\* the loop of LData.size over the shape
RECURSIVE SizeOverShape(_, _, _)
SizeOverShape(ar, size, shape) ==
    IF shape = <<>> THEN size
    ELSE LET d == DimValue(ar, Head(shape))
         IN  IF d = None THEN None
             ELSE SizeOverShape(ar, IF d >= 0 THEN size * d ELSE size, Tail(shape))

\* LData.size
LDataSize(ar, itemid) ==
    LET item == Item(ar, itemid)
        typeid == item.typeid
    IN  IF typeid = None THEN 0
        ELSE IF typeid = 0 THEN 0
        ELSE IF typeid < 0 THEN prim[-typeid].size
        ELSE LET size == Item(ar, typeid).size
             IN  IF size # None THEN SizeOverShape(ar, size, item.shape) ELSE size

\* LData.alignment
LDataAlignment(ar, itemid) ==
    LET item == Item(ar, itemid)
        align == item.align
        typeid == item.typeid
    IN  IF align # None /\ align # 0 THEN (IF align > 0 THEN align ELSE None)
        ELSE IF typeid = 0 THEN None
        ELSE IF typeid < 0 THEN prim[-typeid].size
        ELSE Item(ar, typeid).align

(* ---------------------------------------------------------------------- *)
(* Layout.add_param, Layout.add_type                                      *)
(* ---------------------------------------------------------------------- *)
\* add_param taking the id after the append instead of before it
add_param_late(ar, lp, parent, name, typeid, align) ==
    LET itemid == Len(ar) + 1
    IN  IF typeid = None
        THEN IF align < -1 THEN Raised(ar, lp, "ValueError")
             ELSE Returned(Append(ar, NewParam(parent, name, align, None, None)),
                           lp, itemid)
        ELSE LET pid == Len(lp)
                 params == Append(lp, itemid)
             IN  IF IllegalAlign(align) THEN Raised(ar, params, "ValueError")
                 ELSE Returned(Append(ar, NewParam(parent, name, pid, typeid, align)),
                               params, itemid)

add_param(ar, lp, parent, name, typeid, align) ==
    LET itemid == Len(ar)
    IN  IF typeid = None
        THEN IF align < -1 THEN Raised(ar, lp, "ValueError")
             ELSE Returned(Append(ar, NewParam(parent, name, align, None, None)),
                           lp, itemid)
        ELSE LET pid == Len(lp)
                 params == Append(lp, itemid)
             IN  IF IllegalAlign(align) THEN Raised(ar, params, "ValueError")
                 ELSE Returned(Append(ar, NewParam(parent, name, pid, typeid, align)),
                               params, itemid)

\* the datatype argument add_type takes when it declares a compound
Ellipsis == [k |-> "Ellipsis", nm |-> NoName, id |-> 0]

add_type(ar, lp, parent, name, datatype, shape, align) ==
    LET itemid == Len(ar)
    IN  IF align # None /\ align # 0 /\ align > 0 /\ BitAnd(align, align - 1) # 0
        THEN Raised(ar, lp, "ValueError")
        ELSE IF align # None /\ align # 0 /\ align < 0
        THEN Raised(ar, lp, "ValueError")
        ELSE IF datatype # Ellipsis
        THEN LET ar1 == Append(ar, NewType(parent, name, itemid + 1))
                 r == add_item(ar1, lp, itemid, NoName, DataValue(datatype, shape, align))
             IN  IF r.err # "" THEN r
                 ELSE LET size == LDataSize(r.ar, -1)
                          talign == IF align # None /\ align # 0 THEN align
                                    ELSE LDataAlignment(r.ar, -1)
                      IN  Returned([r.ar EXCEPT ![itemid + 1].size = size,
                                                ![itemid + 1].align = talign],
                                   lp, itemid)
        ELSE Returned(Append(ar, NewType(parent, name, None)), lp, itemid)

(* ---------------------------------------------------------------------- *)
(* Facade calls                                                           *)
(* ---------------------------------------------------------------------- *)
\* map[name] = id, Python dict assignment
Bind(map, name, id) ==
    [n \in (DOMAIN map) \cup {name} |-> IF n = name THEN id ELSE map[n]]

\* LDict.__setitem__
LDictSetItem(ar, lp, d, name, value) == add_item(ar, lp, d, name, value)

\* LDict.getdict
getdict(ar, lp, d, name) ==
    LET item == LDictGet(ar, d, name)
    IN  IF ~Truthy(ar, item) THEN add_item(ar, lp, d, name, DictClass)
        ELSE IF Item(ar, item).itype # D_DICT THEN Raised(ar, lp, "TypeError")
        ELSE Returned(ar, lp, item)

\* LDict.getlist
getlist(ar, lp, d, name) ==
    LET item == LDictGet(ar, d, name)
    IN  IF ~Truthy(ar, item) THEN add_item(ar, lp, d, name, ListClass)
        ELSE IF Item(ar, item).itype # D_LIST THEN Raised(ar, lp, "TypeError")
        ELSE Returned(ar, lp, item)

\* the loop of DictParams.__call__ that follows typedefs down to a primitive:
\* [err, tid].  seen holds the type ids the loop has been through: coming back
\* to one of them, the loop never ends ("Hang": the call does not return)
RECURSIVE TypedefLoop(_, _, _)
TypedefLoop(ar, tid, seen) ==
    IF tid = None THEN [err |-> "TypeError", tid |-> tid]
    ELSE IF tid <= 0 THEN [err |-> "", tid |-> tid]
    ELSE IF tid \in seen THEN [err |-> "Hang", tid |-> tid]
    ELSE LET item == Item(ar, tid)
             members == IF item.itype # D_TYPE THEN None ELSE item.members
         IN  IF members = None THEN [err |-> "TypeError", tid |-> tid]
             ELSE IF members >= Len(ar) THEN [err |-> "IndexError", tid |-> tid]
             ELSE LET m == Item(ar, members)
                  IN  IF m.itype # D_DATA
                      THEN [err |-> "AttributeError", tid |-> tid]  \* no typeid or shape
                      ELSE IF m.shape # <<>> \/ m.filt # None
                      THEN [err |-> "TypeError", tid |-> tid]
                      ELSE TypedefLoop(ar, m.typeid, seen \cup {tid})

TypedefPrim(ar, tid) == TypedefLoop(ar, tid, {})

\* the integer test letting the third kind of each row of five through
NotIntegerPrim_three(tid) == tid > -1 \/ tid < -50 \/ (-1 - tid) % 5 > 2

\* the integer test of DictParams.__call__
NotIntegerPrim(tid) == tid > -1 \/ tid < -50 \/ (-1 - tid) % 5 > 1

\* DictParams.__call__ with an integer: a fixed parameter
DictParamsCallFixed(ar, lp, d, name, value) ==
    LET r == add_param(ar, lp, d, name, None, value)
    IN  IF r.err # "" THEN r
        ELSE Returned([r.ar EXCEPT ![d + 1].params = Bind(@, name, r.ret)], r.lp, r.ret)

\* DictParams.__call__ with a datatype: a dynamic parameter
DictParamsCall(ar, lp, d, name, datatype, align) ==
    LET t == _get_typeid(ar, d, datatype)
    IN  IF t.err # "" THEN Raised(ar, lp, t.err)
        ELSE LET s == TypedefPrim(ar, t.id)
             IN  IF s.err # "" THEN Raised(ar, lp, s.err)
                 ELSE IF NotIntegerPrim(s.tid) THEN Raised(ar, lp, "TypeError")
                 ELSE LET r == add_param(ar, lp, d, name, t.id, align)
                      IN  IF r.err # "" THEN r
                          ELSE Returned([r.ar EXCEPT ![d + 1].params = Bind(@, name, r.ret)],
                                        r.lp, r.ret)

\* DictTypes.__call__
DictTypesCall(ar, lp, d, name, datatype, shape, align) ==
    IF name # NoName /\ name \in DOMAIN Item(ar, d).types
    THEN Raised(ar, lp, "ValueError")
    ELSE add_type(ar, lp, d, name, datatype, shape, align)

\* the TypeErrors of LType, told apart by their messages
ErrOpenType == "TypeError: __setitem__ is only legal method for open LType"
ErrClosedType == "TypeError: __setitem__ is illegal method for closed LType"
ErrNotOpen == "TypeError: attempt to close LType that is not open"

\* LType._check_closed, the gate of every read of a type: the error it raises
_check_closed(ar, t) ==
    IF Item(ar, t).align = None \/ Item(ar, t).align < 0 THEN ErrOpenType ELSE ""

\* LType.close
LTypeClose(ar, lp, t) ==
    LET align == Item(ar, t).align
    IN  IF align = None \/ align >= 0 THEN Raised(ar, lp, ErrNotOpen)
        ELSE Returned([ar EXCEPT ![t + 1].align = -align], lp, None)

\* LType.__setitem__
LTypeSetItem(ar, lp, t, name, value) ==
    LET item == Item(ar, t)
    IN  IF item.align = None \/ item.align <= 0 THEN Raised(ar, lp, ErrClosedType)
        ELSE LET r == add_item(ar, lp, t, name, value)
             IN  IF r.err # "" THEN r
                 ELSE LET malign == Item(r.ar, -1).align
                          align == IF malign > -item.align THEN malign ELSE -item.align
                          size == item.size
                          msize == LDataSize(r.ar, -1)
                          rem == BitAnd(size, malign - 1)
                          nsize == IF size = None THEN size
                                   ELSE IF msize = None THEN None
                                   ELSE (IF rem # 0 THEN size + malign - rem ELSE size) + msize
                      IN  Returned([r.ar EXCEPT ![t + 1].align = -align,
                                                ![t + 1].size = nsize],
                                   lp, None)

(* ---------------------------------------------------------------------- *)
(* The layout under its callers                                           *)
(* ---------------------------------------------------------------------- *)
IsOpen(ar, t) ==
    Item(ar, t).itype = D_TYPE /\ Item(ar, t).align # None /\ Item(ar, t).align < 0

\* the record of a call: the operation, the error it raised ("" if none), the
\* value it returned, and the arena length and the state of its target before it
Call(op, tgt, r) ==
    [op |-> op, err |-> r.err, ret |-> r.ret, len0 |-> Len(arena),
     open0 |-> IsOpen(arena, tgt)]

Did(op, tgt, r) ==
    /\ arena' = r.ar
    /\ lparams' = r.lp
    /\ last' = Call(op, tgt, r)
    /\ UNCHANGED <<codec, bison, tokzr, parser, dparser, hdfvars>>

HasRoom(n) == Len(arena) + n <= MaxItems

TypeHandles(ar) == {TypeHandle(t) : t \in IdsOf(ar, D_TYPE)}

\* d[name] = (datatype, shape, align)
DictSetData(names, datatypes, shapes, aligns) ==
    /\ HasRoom(1)
    /\ \E d \in IdsOf(arena, D_DICT), name \in names,
          datatype \in datatypes \cup TypeHandles(arena),
          shape \in shapes, align \in aligns :
          Did("LDict.set", d,
              LDictSetItem(arena, lparams, d, name, DataValue(datatype, shape, align)))

\* d[name] = dict
DictSetDict(names) ==
    /\ HasRoom(1)
    /\ \E d \in IdsOf(arena, D_DICT), name \in names :
          Did("LDict.set", d, LDictSetItem(arena, lparams, d, name, DictClass))

\* d[name] = list
DictSetList(names) ==
    /\ HasRoom(1)
    /\ \E d \in IdsOf(arena, D_DICT), name \in names :
          Did("LDict.set", d, LDictSetItem(arena, lparams, d, name, ListClass))

\* d.getdict(name)
GetDict(names) ==
    /\ HasRoom(1)
    /\ \E d \in IdsOf(arena, D_DICT), name \in names :
          Did("LDict.getdict", d, getdict(arena, lparams, d, name))

\* d.getlist(name)
GetList(names) ==
    /\ HasRoom(1)
    /\ \E d \in IdsOf(arena, D_DICT), name \in names :
          Did("LDict.getlist", d, getlist(arena, lparams, d, name))

\* d.params(name, value)
ParamFixed(names, values) ==
    /\ HasRoom(1)
    /\ \E d \in IdsOf(arena, D_DICT), name \in names, value \in values :
          Did("DictParams.call", d, DictParamsCallFixed(arena, lparams, d, name, value))

\* d.params(name, datatype, align)
ParamDynamic(names, datatypes, aligns) ==
    /\ HasRoom(1)
    /\ Len(lparams) < MaxItems
    /\ \E d \in IdsOf(arena, D_DICT), name \in names,
          datatype \in datatypes \cup TypeHandles(arena), align \in aligns :
          Did("DictParams.call", d,
              DictParamsCall(arena, lparams, d, name, datatype, align))

\* d.types(name): a compound, open
TypeCompound(names) ==
    /\ HasRoom(1)
    /\ \E d \in IdsOf(arena, D_DICT), name \in names :
          Did("DictTypes.call", d,
              DictTypesCall(arena, lparams, d, name, Ellipsis, <<>>, None))

\* d.types(name, datatype, shape, align): a typedef
TypeTypedef(names, datatypes, shapes, aligns) ==
    /\ HasRoom(2)
    /\ \E d \in IdsOf(arena, D_DICT), name \in names, datatype \in datatypes,
          shape \in shapes, align \in aligns :
          Did("DictTypes.call", d,
              DictTypesCall(arena, lparams, d, name, datatype, shape, align))

\* t[name] = (datatype, shape, align)
TypeSet(names, datatypes, shapes, aligns) ==
    /\ HasRoom(1)
    /\ \E t \in IdsOf(arena, D_TYPE), name \in names,
          datatype \in datatypes \cup TypeHandles(arena),
          shape \in shapes, align \in aligns :
          Did("LType.set", t,
              LTypeSetItem(arena, lparams, t, name, DataValue(datatype, shape, align)))

\* t[name] = dict
TypeSetDict(names) ==
    /\ HasRoom(1)
    /\ \E t \in IdsOf(arena, D_TYPE), name \in names :
          Did("LType.set", t, LTypeSetItem(arena, lparams, t, name, DictClass))

\* t.close()
TypeClose ==
    \E t \in IdsOf(arena, D_TYPE) :
        Did("LType.close", t, LTypeClose(arena, lparams, t))

\* len(t), t.get(name), iter(t), t.typedef: all pass through _check_closed
TypeRead ==
    \E t \in IdsOf(arena, D_TYPE) :
        Did("LType.read", t,
            [ar |-> arena, lp |-> lparams, err |-> _check_closed(arena, t), ret |-> None])

(* ---------------------------------------------------------------------- *)
(* BisonParser._call (src/dudley/bisonp.py)                               *)
(*                                                                        *)
(* The parse tables are the caller's: what a state does with a token      *)
(* (shift, reduce, accept, no entry) is chosen freely at every turn of    *)
(* the loop.  Names bound nowhere are read as in layout.py: errorstatus   *)
(* is errstatus, the yy-prefixed tables are the tables unpacked above     *)
(* them; the values on the stack are left out, its depth is kept.         *)
(* op, errd and since record the last turn of the loop, whether a syntax  *)
(* error has happened, and the tokens shifted since the last one.         *)
(* ---------------------------------------------------------------------- *)
NoTok == "none"

\* the shift keeping errstatus as it is
ShiftErrstatus_keep(errstatus) == errstatus

\* `if errorstatus: errorstatus -= 1` of the shift
ShiftErrstatus(errstatus) == IF errstatus # 0 THEN errstatus - 1 ELSE errstatus

\* the locals at the first turn of the loop
BisonStart ==
    [pc |-> "run", errstatus |-> 0, nerrs |-> 0, lookahead |-> NoTok, depth |-> 1,
     op |-> "start", errd |-> FALSE, since |-> 0,
     state |-> 0, stack |-> <<0>>, nargs |-> 0, result |-> None]

BisonStates == 0..MaxState

\* `final`
BisonFinal == MaxState

\* `lookahead = yield True`: the caller sends the next token
BisonToken ==
    /\ bison.pc = "run" /\ bison.state # BisonFinal /\ bison.lookahead = NoTok
    /\ \E token \in {"tok", "eof"} :
          bison' = [bison EXCEPT !.lookahead = token, !.op = "token"]
    /\ UNCHANGED <<arena, lparams, last, codec, tokzr, parser, dparser, hdfvars>>

\* the table entry is a state j > 0: shift the lookahead token
BisonShift ==
    /\ bison.pc = "run" /\ bison.state # BisonFinal /\ bison.lookahead # NoTok
    /\ bison.depth < MaxStack
    /\ \E j \in BisonStates \ {0} :
          bison' = [bison EXCEPT !.errstatus = ShiftErrstatus(@),
                                 !.state = j,
                                 !.stack = Append(@, j),
                                 !.depth = @ + 1,
                                 !.lookahead = NoTok,
                                 !.op = "shift",
                                 !.since = IF @ < 3 THEN @ + 1 ELSE @]
    /\ UNCHANGED <<arena, lparams, last, codec, tokzr, parser, dparser, hdfvars>>

\* what `del stack[-nargs:]` leaves of the stack: nothing for nargs = 0
DelTop(stack, nargs) ==
    IF nargs = 0 THEN <<>> ELSE SubSeq(stack, 1, Len(stack) - nargs)

\* reduce by a rule with nargs right-hand sides: after `del stack[-nargs:]`
\* the state is the one on top, and stack[-1] raises when nothing is left;
\* the goto is table[state], not pushed, or defgoto[lhs], pushed
BisonReduce ==
    /\ bison.pc = "run" /\ bison.state # BisonFinal
    /\ \E nargs \in 0..(bison.depth - 1), push \in {0, 1}, to \in BisonStates :
          LET left == DelTop(bison.stack, nargs)
          IN  IF left = <<>>
              THEN bison' = [bison EXCEPT !.pc = "raised", !.depth = 0, !.stack = left,
                                          !.op = "reduce", !.nargs = nargs]
              ELSE bison' = [bison EXCEPT
                                !.depth = @ - nargs + push,
                                !.stack = IF push = 1 THEN Append(left, to) ELSE left,
                                !.state = to,
                                !.op = "reduce", !.nargs = nargs]
    /\ UNCHANGED <<arena, lparams, last, codec, tokzr, parser, dparser, hdfvars>>

\* the syntax error branch and its search for a state that shifts the error
\* token.  left states stay on the stack when the search ends, left = None
\* when the stack is used up.  The search ends at a state whose table entry
\* for the error token is a state j > 0 (entry = "shift"), which is pushed;
\* at a state whose entry is j <= 0 (entry = "reduce") `continue` goes back
\* to `while j <= 0` with nothing changed, for ever.
BisonError ==
    /\ bison.pc = "run" /\ bison.state # BisonFinal
    /\ bison.errstatus = 0 => bison.nerrs < MaxErrs
    /\ IF bison.errstatus = 3 /\ bison.lookahead = "eof"
       THEN bison' = [bison EXCEPT !.pc = "done", !.op = "abort", !.result = 1]
       ELSE \E left \in {None} \cup 0..bison.depth, entry \in {"shift", "reduce"},
               j \in BisonStates \ {0} :
               /\ left # None => left < MaxStack
               /\ bison' = [bison EXCEPT
                     !.nerrs = IF bison.errstatus = 0 THEN @ + 1 ELSE @,
                     !.lookahead = IF bison.errstatus = 3 THEN NoTok ELSE @,
                     !.errstatus = 3,
                     !.depth = IF left = None THEN 0
                               ELSE IF entry = "shift" THEN left + 1 ELSE left,
                     !.stack = IF left = None THEN <<>>
                               ELSE IF entry = "shift"
                               THEN Append(SubSeq(@, 1, left), j)
                               ELSE SubSeq(@, 1, left),
                     !.state = IF left = None THEN 0
                               ELSE IF entry = "shift" THEN j
                               ELSE IF left = bison.depth THEN @
                               ELSE bison.stack[left + 1],
                     !.pc = IF left = None THEN "done"
                            ELSE IF entry = "shift" THEN "run" ELSE "hung",
                     !.result = IF left = None THEN 1 ELSE @,
                     !.op = "error", !.errd = TRUE, !.since = 0]
    /\ UNCHANGED <<arena, lparams, last, codec, tokzr, parser, dparser, hdfvars>>

\* state == final: the loop ends
BisonAccept ==
    /\ bison.pc = "run" /\ bison.state = BisonFinal
    /\ bison' = [bison EXCEPT !.pc = "done", !.op = "accept", !.result = 0]
    /\ UNCHANGED <<arena, lparams, last, codec, tokzr, parser, dparser, hdfvars>>

\* self(None): a new generator
BisonReset ==
    /\ bison.pc \in {"done", "raised"}
    /\ bison' = BisonStart
    /\ UNCHANGED <<arena, lparams, last, codec, tokzr, parser, dparser, hdfvars>>

(* ---------------------------------------------------------------------- *)
(* DTokenizer (src/pyparse.py)                                            *)
(*                                                                        *)
(* The stream is one line of tokens, or no line at all (input = <<>>, the *)
(* empty stream).  A token is its kind and its place in the input.  After *)
(* the last token of a line _skip_spaces_and_comments never returns: it   *)
(* reads on into self.line while it tests the local `line` it started     *)
(* with (`stream` there is self.stream; as written the name is unbound    *)
(* and the call raises there).  Either way the call returns no token: pc  *)
(* becomes "hung".  op, ret and n record the last call, the token it      *)
(* returned and the number of calls.                                      *)
(* ---------------------------------------------------------------------- *)
Token(k, i) == [k |-> k, i |-> i]
NoToken == Token("none", 0)        \* None
EofToken == Token("eof", 0)        \* ("eof",)

TokenKinds == {"symbol", "..", "error"}

RECURSIVE StreamsOfLen(_)
StreamsOfLen(n) ==
    IF n = 0 THEN {<<>>}
    ELSE {<<k>> \o st : k \in TokenKinds, st \in StreamsOfLen(n - 1)}

TokenStreams == UNION {StreamsOfLen(n) : n \in 0..MaxTokens}

NoTokenizer ==
    [pc |-> "none", input |-> <<>>, pos |-> 0, lookahead |-> NoToken,
     op |-> "none", ret |-> NoToken, n |-> 0]

\* DTokenizer.next
DTokenizerNext(t) ==
    IF t.lookahead # NoToken
    THEN [t EXCEPT !.lookahead = IF @.k \notin {"error", "eof"} THEN NoToken ELSE @,
                   !.ret = t.lookahead]
    ELSE IF t.pos < Len(t.input)
    THEN [t EXCEPT !.pos = @ + 1, !.ret = Token(t.input[t.pos + 1], t.pos + 1)]
    ELSE IF t.input = <<>> THEN [t EXCEPT !.ret = EofToken]
    ELSE [t EXCEPT !.pc = "hung", !.ret = NoToken]

\* DTokenizer.peek
DTokenizerPeek(t) ==
    LET u == DTokenizerNext(t)
    IN  IF u.pc = "hung" THEN u ELSE [u EXCEPT !.lookahead = u.ret]

\* DTokenizer.clear
DTokenizerClear(t) ==
    [t EXCEPT !.lookahead = IF @.k \in {"error", "eof"} THEN NoToken ELSE @,
              !.ret = NoToken]

\* DTokenizer(stream)
TokzrNew ==
    /\ tokzr.pc = "none"
    /\ \E input \in TokenStreams :
          tokzr' = [NoTokenizer EXCEPT !.pc = "ok", !.input = input, !.op = "new"]
    /\ UNCHANGED <<arena, lparams, last, codec, bison, parser, dparser, hdfvars>>

\* a call of next
TokzrNext ==
    /\ tokzr.pc = "ok" /\ tokzr.n < MaxCalls
    /\ tokzr' = [DTokenizerNext(tokzr) EXCEPT !.op = "next", !.n = @ + 1]
    /\ UNCHANGED <<arena, lparams, last, codec, bison, parser, dparser, hdfvars>>

\* a call of peek
TokzrPeek ==
    /\ tokzr.pc = "ok" /\ tokzr.n < MaxCalls
    /\ tokzr' = [DTokenizerPeek(tokzr) EXCEPT !.op = "peek", !.n = @ + 1]
    /\ UNCHANGED <<arena, lparams, last, codec, bison, parser, dparser, hdfvars>>

\* a call of clear
TokzrClear ==
    /\ tokzr.pc = "ok" /\ tokzr.n < MaxCalls
    /\ tokzr' = [DTokenizerClear(tokzr) EXCEPT !.op = "clear", !.n = @ + 1]
    /\ UNCHANGED <<arena, lparams, last, codec, bison, parser, dparser, hdfvars>>

(* ---------------------------------------------------------------------- *)
(* Parser (src/dudley/parser.py)                                          *)
(*                                                                        *)
(* container is the id of the current container.  Parser.__init__ never   *)
(* assigns self.lookahead: it is Unset until put_back_token assigns it.   *)
(* tokens is what the token generator still has to yield, exhausted when  *)
(* self.tokens is None.  op, ret, err and n record the last call.         *)
(* ---------------------------------------------------------------------- *)
Unset == Token("unset", 0)

NewParser ==
    [container |-> 0, lookahead |-> Unset, tokens |-> <<>>, exhausted |-> TRUE,
     op |-> "new", ret |-> NoToken, err |-> "", n |-> 0]

\* Parser.next_token
ParserNextTokenOf(ps) ==
    IF ps.lookahead = Unset THEN [ps EXCEPT !.err = "AttributeError", !.ret = NoToken]
    ELSE IF ps.lookahead # NoToken
    THEN [ps EXCEPT !.lookahead = NoToken, !.ret = ps.lookahead, !.err = ""]
    ELSE IF ps.exhausted THEN [ps EXCEPT !.ret = EofToken, !.err = ""]
    ELSE IF ps.tokens = <<>>
    THEN [ps EXCEPT !.ret = EofToken, !.exhausted = TRUE, !.err = ""]
    ELSE [ps EXCEPT !.ret = Head(ps.tokens), !.tokens = Tail(@), !.err = ""]

\* Parser.put_back_token
ParserPutBackOf(ps, token) == [ps EXCEPT !.lookahead = token, !.ret = token, !.err = ""]

\* self.tokens = self.tokenize(dudfile)
ParserTokenize ==
    /\ parser.op = "new"
    /\ \E input \in TokenStreams :
          parser' = [parser EXCEPT
                        !.tokens = [i \in DOMAIN input |-> Token(input[i], i)],
                        !.exhausted = FALSE, !.op = "tokenize"]
    /\ UNCHANGED <<arena, lparams, last, codec, bison, tokzr, dparser, hdfvars>>

ParserNextToken ==
    /\ parser.n < MaxCalls
    /\ parser' = [ParserNextTokenOf(parser) EXCEPT !.op = "next_token", !.n = @ + 1]
    /\ UNCHANGED <<arena, lparams, last, codec, bison, tokzr, dparser, hdfvars>>

\* the caller puts back a symbol or the token it has just been given
ParserPutBack ==
    /\ parser.n < MaxCalls
    /\ \E token \in {Token("symbol", 0)}
                       \cup (IF parser.op = "next_token" /\ parser.err = ""
                             THEN {parser.ret} ELSE {}) :
          parser' = [ParserPutBackOf(parser, token) EXCEPT
                        !.op = "put_back_token", !.n = @ + 1]
    /\ UNCHANGED <<arena, lparams, last, codec, bison, tokzr, dparser, hdfvars>>

\* Parser.dict_ on DOTDOT: to the parent if the parent is a dict
ParserDotDot ==
    /\ LET parent == Item(arena, parser.container).parent
       IN  parser' = [parser EXCEPT
              !.container = IF Truthy(arena, parent) /\ Item(arena, parent).itype = D_DICT
                            THEN parent ELSE @,
              !.op = "..", !.err = ""]
    /\ UNCHANGED <<arena, lparams, last, codec, bison, tokzr, dparser, hdfvars>>

\* Parser.dict_ on SLASH: LItem.root reads self.layout.raw, which Layout has not
ParserSlash ==
    /\ parser' = [parser EXCEPT !.op = "/", !.err = "AttributeError"]
    /\ UNCHANGED <<arena, lparams, last, codec, bison, tokzr, dparser, hdfvars>>

\* Parser.dict_ on SYMBOL SLASH: into the subdict of that name
ParserSymbolSlash(names) ==
    /\ HasRoom(1)
    /\ \E name \in names :
          LET r == getdict(arena, lparams, parser.container, name)
          IN  /\ arena' = r.ar
              /\ lparams' = r.lp
              /\ parser' = [parser EXCEPT
                     !.container = IF r.err = "" THEN r.ret ELSE @,
                     !.op = "SYMBOL /", !.err = r.err]
    /\ UNCHANGED <<last, codec, bison, tokzr, dparser, hdfvars>>

(* ---------------------------------------------------------------------- *)
(* DParser.dict_item (src/pyparse.py)                                     *)
(*                                                                        *)
(* containers is the container stack, the root dict (0) at its bottom.    *)
(* self.containers is the list __call__ builds and self.sym_quot is       *)
(* symb_quot; report_error and the open_dict of a DDict are defined       *)
(* nowhere, and calling them raises AttributeError out of the parse.      *)
(* syntax is the DudleySyntax message raised inside dict_item.            *)
(* ---------------------------------------------------------------------- *)
NewDParser ==
    [pc |-> "run", containers |-> <<0>>, op |-> "new", syntax |-> "", raised |-> ""]

ErrDotDotTop == "cannot .. from top level dict"

\* dict_item on "..": what is left of the stack after the pop decides
DParserDotDot ==
    /\ dparser.pc = "run"
    /\ LET popped == SubSeq(dparser.containers, 1, Len(dparser.containers) - 1)
       IN  IF popped = <<>>
           THEN dparser' = [dparser EXCEPT !.pc = "raised", !.op = "..",
                                          !.syntax = ErrDotDotTop,
                                          !.raised = "AttributeError"]
           ELSE dparser' = [dparser EXCEPT !.containers = popped, !.op = "..",
                                          !.syntax = ""]
    /\ UNCHANGED <<arena, lparams, last, codec, bison, tokzr, parser, hdfvars>>

\* dict_item on "/": pop while more than one container is open
DParserSlash ==
    /\ dparser.pc = "run"
    /\ dparser' = [dparser EXCEPT !.containers = <<Head(@)>>, !.op = "/", !.syntax = ""]
    /\ UNCHANGED <<arena, lparams, last, codec, bison, tokzr, parser, hdfvars>>

\* dict_item on SYMBOL "/": containers.append(current.open_dict(name))
DParserSymbolSlash ==
    /\ dparser.pc = "run"
    /\ dparser' = [dparser EXCEPT !.pc = "raised", !.op = "SYMBOL /",
                                  !.syntax = "", !.raised = "AttributeError"]
    /\ UNCHANGED <<arena, lparams, last, codec, bison, tokzr, parser, hdfvars>>

\* DParser(layout): a new parser after one has raised
DParserNew ==
    /\ dparser.pc = "raised"
    /\ dparser' = NewDParser
    /\ UNCHANGED <<arena, lparams, last, codec, bison, tokzr, parser, hdfvars>>

(* ---------------------------------------------------------------------- *)
(* HDF5.__init__ (src/dudley/hdf5meta.py)                                 *)
(*                                                                        *)
(* A file is its size and the set of offsets at which the eight bytes of  *)
(* the superblock signature stand.  probes lists the offsets read by the  *)
(* search loop; open tells whether the file object f is open.  What the   *)
(* superblock and the metadata behind it hold is the file's: the sizes of *)
(* offsets and lengths, the base address and the outcome of the walk are  *)
(* chosen freely.  seeks is the set of places of the file the reader has  *)
(* gone to for the metadata of its objects, each with the file-relative   *)
(* address the metadata give for it.                                      *)
(* ---------------------------------------------------------------------- *)
\* the i-th offset at which a superblock may stand: 0, 512, 1024, 2048, ...
ProbeOffset(i) == IF i = 0 THEN 0 ELSE 512 * 2^(i - 1)

FileSizes ==
    {0} \cup UNION {{ProbeOffset(i) + 8, ProbeOffset(i) + 9} : i \in 0..(MaxProbes - 1)}

SigOffsets == {256} \cup {ProbeOffset(i) : i \in 0..(MaxProbes - 1)}

Bases == {0, 512}

NoHDF5 ==
    [pc |-> "none", size |-> 0, sigs |-> {}, addr |-> 0, probes |-> <<>>,
     open |-> FALSE, base0 |-> None, base |-> None, offsz |-> None, lensz |-> None,
     err |-> "", seeks |-> {}]

\* the search loop never leaving offset 0
ProbeNext_double(addr) == 2 * addr

\* `addr = 2*addr if addr else 512`
ProbeNext(addr) == IF addr # 0 THEN 2 * addr ELSE 512

\* f = open(filename, "rb"); size = f.seek(0, 2); addr = 0
HDF5Open ==
    /\ hdf.pc = "none"
    /\ \E size \in FileSizes, sigs \in SUBSET SigOffsets :
          /\ \A o \in sigs : o + 8 <= size
          /\ hdf' = [NoHDF5 EXCEPT !.pc = "search", !.size = size, !.sigs = sigs,
                                   !.open = TRUE]
    /\ UNCHANGED <<arena, lparams, last, codec, bison, tokzr, parser, dparser,
                   shared, heap, group>>

\* one turn of `while addr + 8 < size`, or its else clause
HDF5Probe ==
    /\ hdf.pc = "search"
    /\ IF hdf.addr + 8 < hdf.size
       THEN IF hdf.addr \in hdf.sigs
            THEN hdf' = [hdf EXCEPT !.probes = Append(@, hdf.addr),
                                    !.pc = "super", !.base0 = hdf.addr]
            ELSE hdf' = [hdf EXCEPT !.probes = Append(@, hdf.addr),
                                    !.addr = ProbeNext(@)]
       ELSE hdf' = [hdf EXCEPT !.pc = "failed", !.open = FALSE,
                               !.err = "HDF5 superblock missing"]
    /\ UNCHANGED <<arena, lparams, last, codec, bison, tokzr, parser, dparser,
                   shared, heap, group>>

\* the superblock fields: offch and lench are looked up in {4: "i", 8: "q"}
HDF5Superblock ==
    /\ hdf.pc = "super"
    /\ \E offsz \in {2, 4, 8}, lensz \in {2, 4, 8}, base \in Bases :
          IF offsz \notin {4, 8} \/ lensz \notin {4, 8}
          THEN hdf' = [hdf EXCEPT !.pc = "failed", !.err = "KeyError"]
          ELSE hdf' = [hdf EXCEPT !.pc = "walk", !.offsz = offsz, !.lensz = lensz,
                                  !.base = base]
    /\ UNCHANGED <<arena, lparams, last, codec, bison, tokzr, parser, dparser,
                   shared, heap, group>>

\* the object headers of the superblock extension and of the root group, and
\* root.expand(): they end, or a block signature is missing
HDF5Walk ==
    /\ hdf.pc = "walk"
    /\ \E err \in {"", "IOError"} :
          hdf' = [hdf EXCEPT !.pc = IF err = "" THEN "ready" ELSE "failed",
                             !.err = err]
    /\ UNCHANGED <<arena, lparams, last, codec, bison, tokzr, parser, dparser,
                   shared, heap, group>>

\* the reader goes to file offset off for what the metadata place at rel
Seek(what, rel, off) == [what |-> what, rel |-> rel, off |-> off]

\* file-relative addresses found in the metadata; -1 is the undefined address
RawAddrs == {-1, 96}

\* read_node_header(addr): `addr += base; f.seek(addr)`
NodeHeaderAt(base, addr) == addr + base

\* local_heap(addr): `addr += self.base; f.seek(addr)`
LocalHeapAt(base, addr) == addr + base

\* btree1(addr, haddr) on a group B-tree of one level-zero node with one
\* entry: the node at addr, its entry, the local heap at haddr with its data
\* segment at seg, and the symbol table node at leaf
Btree1Group(base, offsz, addr, haddr, leaf, seg) ==
    { Seek("TREE", addr, NodeHeaderAt(base, addr)),
      Seek("entry", addr + 8 + 2 * offsz + offsz, (addr + 8 + 2 * offsz) + offsz),
      Seek("HEAP", haddr, LocalHeapAt(base, haddr + base)),
      Seek("heap data", seg, seg + base),
      Seek("SNOD", leaf, leaf + base) }

\* the data layout message: `addr = unpack(...)[0] + base`
LayoutAddr(base, raw) == raw + base

\* a contiguous layout: self.addr, which HDF5Data.key takes as undefined
\* when it is -1
LayoutContiguous(base, raw) ==
    LET addr == LayoutAddr(base, raw)
    IN  IF addr # -1 THEN { Seek("data", raw, addr) } ELSE {}

\* a chunked layout: `if addr != -1`, btree1(addr + base) on the chunk
\* B-tree and `a + base` for the chunk address in its one leaf
LayoutChunked(base, raw, chunk) ==
    LET addr == LayoutAddr(base, raw)
    IN  IF addr # -1
        THEN { Seek("TREE", raw, NodeHeaderAt(base, addr + base)),
               Seek("chunk", chunk, chunk + base) }
        ELSE {}

\* HDF5Group.symtab of a v1 group: hdf5.btree1(self.baddr, self.haddr)
HDF5Symtab ==
    /\ hdf.pc = "ready"
    /\ hdf' = [hdf EXCEPT !.seeks = @ \cup Btree1Group(hdf.base, hdf.offsz,
                                                       96, 192, 256, 320)]
    /\ UNCHANGED <<arena, lparams, last, codec, bison, tokzr, parser, dparser,
                   shared, heap, group>>

\* HDF5Data.header_msg with a data layout message (mtype 8)
HDF5Layout ==
    /\ hdf.pc = "ready"
    /\ \E raw \in RawAddrs, cls \in {1, 2} :
          hdf' = [hdf EXCEPT !.seeks = @ \cup
                     IF cls = 1 THEN LayoutContiguous(hdf.base, raw)
                     ELSE LayoutChunked(hdf.base, raw, 400)]
    /\ UNCHANGED <<arena, lparams, last, codec, bison, tokzr, parser, dparser,
                   shared, heap, group>>

\* the reader is dropped; another file may be opened
HDF5Drop ==
    /\ hdf.pc \in {"ready", "failed"}
    /\ hdf' = NoHDF5
    /\ UNCHANGED <<arena, lparams, last, codec, bison, tokzr, parser, dparser,
                   shared, heap, group>>

(* ---------------------------------------------------------------------- *)
(* HDF5.oheader and HDF5.handle_shared (src/dudley/hdf5meta.py)           *)
(*                                                                        *)
(* A file is its version 1 object headers, each a sequence of messages.   *)
(* A message has a type; a shared one (mflags & 2) has also the version   *)
(* of its shared-message body and the header that body points to.         *)
(* shared is the file, the header oheader was called on, and the messages *)
(* or the error the call ended with.                                      *)
(* ---------------------------------------------------------------------- *)
Msg(mtype, isshared, vers, target) ==
    [mtype |-> mtype, shared |-> isshared, vers |-> vers, target |-> target]

HeaderIds == 1..MaxHeaders

Messages ==
    {Msg(mtype, FALSE, 0, 0) : mtype \in {1, 3}}
        \cup {Msg(3, TRUE, vers, target) : vers \in {1, 3}, target \in HeaderIds}

RECURSIVE HeadersOfLen(_)
HeadersOfLen(n) ==
    IF n = 0 THEN {<<>>}
    ELSE {<<m>> \o h : m \in Messages, h \in HeadersOfLen(n - 1)}

Headers == UNION {HeadersOfLen(n) : n \in 0..MaxMsgs}

\* handle_shared: below version 3 addr is the tuple unpack returns, which is
\* not -1, and oheader(addr) adds self.base to it; from version 3 on addr
\* stays -1 and the message is returned as it stands
handle_shared(hs, mtype, msg) ==
    IF msg.vers < 3
    THEN [err |-> "TypeError", msg |-> msg]
    ELSE [err |-> "", msg |-> msg]

\* the message loop of oheader for a version 1 header, from message i on
RECURSIVE OHeaderFrom(_, _, _, _)
OHeaderFrom(hs, a, i, msgs) ==
    IF i > Len(hs[a]) THEN [err |-> "", msgs |-> msgs]
    ELSE LET m == hs[a][i]
         IN  IF m.shared
             THEN LET r == handle_shared(hs, m.mtype, m)
                  IN  IF r.err # "" THEN [err |-> r.err, msgs |-> <<>>]
                      ELSE OHeaderFrom(hs, a, i + 1, Append(msgs, r.msg))
             ELSE OHeaderFrom(hs, a, i + 1, Append(msgs, m))

oheader(hs, a) == OHeaderFrom(hs, a, 1, <<>>)

NoShared == [pc |-> "none", headers |-> <<>>, at |-> 0, msgs |-> <<>>, err |-> ""]

\* a file is opened
SharedFile ==
    /\ shared.pc = "none"
    /\ \E hs \in [HeaderIds -> Headers] :
          shared' = [NoShared EXCEPT !.pc = "open", !.headers = hs]
    /\ UNCHANGED <<arena, lparams, last, codec, bison, tokzr, parser, dparser,
                   hdf, heap, group>>

\* self.oheader(addr)
SharedOHeader ==
    /\ shared.pc = "open"
    /\ \E a \in HeaderIds :
          LET r == oheader(shared.headers, a)
          IN  shared' = [shared EXCEPT !.pc = "done", !.at = a,
                                       !.msgs = r.msgs, !.err = r.err]
    /\ UNCHANGED <<arena, lparams, last, codec, bison, tokzr, parser, dparser,
                   hdf, heap, group>>

\* the file is dropped
SharedDrop ==
    /\ shared.pc = "done"
    /\ shared' = NoShared
    /\ UNCHANGED <<arena, lparams, last, codec, bison, tokzr, parser, dparser,
                   hdf, heap, group>>
(* ---------------------------------------------------------------------- *)
(* HDF5.fractal_heap and get_fhib (src/dudley/hdf5meta.py)                *)
(*                                                                        *)
(* A heap is its header fields (width, startsz, max_dblock_rows, nrows1,  *)
(* root) and its indirect blocks, each the sequence of its entries row by *)
(* row: the address of a direct block in the first max_dblock_rows rows,  *)
(* of an indirect block in the rows after them, or -1.  The walk is the   *)
(* sequence of blocks read: signature, address, and for a direct block    *)
(* the number of bytes.  A call nested deeper than the interpreter allows *)
(* raises RecursionError.                                                 *)
(* ---------------------------------------------------------------------- *)
RootAddr == 100
ChildAddr == 200
StartSz == 512
DblockRows == 3

Read(sig, addr, size) == [sig |-> sig, addr |-> addr, size |-> size]

\* bsz and nextsz after r turns of `bsz, nextsz = nextsz, 2*nextsz`
RECURSIVE BszPair(_, _)
BszPair(startsz, r) ==
    IF r = 0 THEN <<startsz, startsz>>
    ELSE LET p == BszPair(startsz, r - 1) IN <<p[2], 2 * p[2]>>

\* the first loop of get_fhib, from entry e on: the direct blocks of the
\* rows below max_dblock_rows and below nrows
RECURSIVE DirectReads(_, _, _, _)
DirectReads(F, blk, e, nrows) ==
    LET row == (e - 1) \div F.width
    IN  IF row >= F.mdr \/ row >= nrows THEN <<>>
        ELSE (IF blk[e] = -1 THEN <<>>
              ELSE << Read("FHDB", blk[e], BszPair(F.startsz, row)[1]) >>)
                 \o DirectReads(F, blk, e + 1, nrows)

RECURSIVE get_fhib(_, _, _, _)
RECURSIVE IndirectReads(_, _, _, _, _, _)
\* the second loop of get_fhib, from entry e on: it ends at the first entry
\* that is -1, and mrows grows at the end of each full row
IndirectReads(F, blk, e, nrows, mrows, depth) ==
    LET row == (e - 1) \div F.width
        col == (e - 1) % F.width
    IN  IF row >= nrows \/ blk[e] = -1 THEN [err |-> "", reads |-> <<>>]
        ELSE LET sub == get_fhib(F, blk[e], mrows, depth - 1)
             IN  IF sub.err # "" THEN sub
                 ELSE LET rest == IndirectReads(F, blk, e + 1, nrows,
                                      IF col = F.width - 1 THEN mrows + 1 ELSE mrows,
                                      depth)
                      IN  [err |-> rest.err, reads |-> sub.reads \o rest.reads]

\* get_fhib(self, addr, nrows): the block is read at root + base
get_fhib(F, addr, nrows, depth) ==
    IF depth = 0 THEN [err |-> "RecursionError", reads |-> <<>>]
    ELSE LET blk == F.blocks[F.root]
             ind == IndirectReads(F, blk, F.mdr * F.width + 1, nrows,
                                  F.mdr + 1, depth)
         IN  [err |-> ind.err,
              reads |-> << Read("FHIB", F.root, 0) >>
                           \o DirectReads(F, blk, 1, nrows) \o ind.reads]

\* fractal_heap from `if not nrows1` on
fractal_heap(F) ==
    IF F.nrows1 = 0
    THEN [err |-> "", reads |-> << Read("FHDB", F.root, F.startsz) >>]
    ELSE get_fhib(F, F.root, F.nrows1, MaxDepth)

\* the indirect blocks a file can hold at addr: direct blocks at addr + 1,
\* addr + 2, ... in some of the direct entries, the block at kid in some of
\* the entries after them
BlocksAt(addr, width, kids) ==
    {[e \in 1..((DblockRows + 1) * width) |->
         IF e \in D THEN addr + e ELSE IF e \in K THEN ChildAddr ELSE -1] :
        D \in SUBSET (1..(DblockRows * width)),
        K \in SUBSET (IF kids
                      THEN (DblockRows * width + 1)..((DblockRows + 1) * width)
                      ELSE {})}

HeapsOfWidth(width) ==
    {[width |-> width, startsz |-> StartSz, mdr |-> DblockRows, nrows1 |-> nrows1,
      root |-> RootAddr, blocks |-> (RootAddr :> rb) @@ (ChildAddr :> cb)] :
        nrows1 \in 0..(DblockRows + 1),
        rb \in BlocksAt(RootAddr, width, TRUE),
        cb \in BlocksAt(ChildAddr, width, FALSE)}

\* heaps whose indirect blocks form a tree: the root and at most one child
Heaps == HeapsOfWidth(1) \cup HeapsOfWidth(2)

NoHeap == [pc |-> "none", file |-> <<>>, reads |-> <<>>, err |-> ""]

\* a file with a fractal heap is opened
HeapFile ==
    /\ heap.pc = "none"
    /\ \E F \in Heaps : heap' = [NoHeap EXCEPT !.pc = "open", !.file = F]
    /\ UNCHANGED <<arena, lparams, last, codec, bison, tokzr, parser, dparser,
                   hdf, shared, group>>

\* self.fractal_heap(addr)
HeapWalk ==
    /\ heap.pc = "open"
    /\ LET r == fractal_heap(heap.file)
       IN  heap' = [heap EXCEPT !.pc = "done", !.reads = r.reads, !.err = r.err]
    /\ UNCHANGED <<arena, lparams, last, codec, bison, tokzr, parser, dparser,
                   hdf, shared, group>>

\* the file is dropped
HeapDrop ==
    /\ heap.pc = "done"
    /\ heap' = NoHeap
    /\ UNCHANGED <<arena, lparams, last, codec, bison, tokzr, parser, dparser,
                   hdf, shared, group>>
(* ---------------------------------------------------------------------- *)
(* HDF5Object.header_msg and HDF5Group.header_msg                         *)
(* (src/dudley/hdf5meta.py)                                               *)
(*                                                                        *)
(* group is the object the header messages of one object header are       *)
(* delivered to: its class (an HDF5Object until a message makes it an     *)
(* HDF5Group or an HDF5Data), the v2 attribute of a group ("None",        *)
(* "False" for v1, "True" for v2), the message types delivered so far,    *)
(* the type of the last one and the error its delivery raised.  An error  *)
(* leaves the loop that delivers the messages (HDF5Group.symtab).         *)
(* ---------------------------------------------------------------------- *)
V1Types == {17}
V2Types == {2, 6, 10}
DataTypes == {1, 3, 7, 8}
MsgTypes == {17, 2, 6, 10, 1, 11, 12}

ErrV1V2 == "Group cannot be both v1 and v2"
ErrV2V1 == "Group cannot be both v2 and v1"

\* the v2 test of a link message raising for an unset mark as well
IsV1_unset(v2) == v2 # "True"

\* `not self.v2 and self.v2 is not None`
IsV1(v2) == v2 = "False"

\* HDF5Group.header_msg: the mark after the message and the error raised
GroupHeaderMsg(v2, mtype) ==
    IF mtype \in V1Types
    THEN IF v2 # "None" THEN [v2 |-> v2, err |-> ErrV1V2]
         ELSE [v2 |-> "False", err |-> ""]
    ELSE IF mtype \in V2Types
    THEN IF IsV1(v2) THEN [v2 |-> v2, err |-> ErrV2V1]
         ELSE [v2 |-> "True", err |-> ""]
    ELSE [v2 |-> v2, err |-> ""]

\* HDF5Object(parent)
NewGroup ==
    [class |-> "HDF5Object", v2 |-> "None", seen |-> {}, mtype |-> 0, err |-> "",
     n |-> 0]

\* obj = obj.header_msg(*args) on an HDF5Object: a group or a datum is made
\* of it and gets the message, or the message is kept by the object
ObjectHeaderMsg ==
    /\ group.class = "HDF5Object" /\ group.n < MaxDelivered /\ group.err = ""
    /\ \E mtype \in MsgTypes :
          IF mtype \in V1Types \cup V2Types
          THEN LET r == GroupHeaderMsg("None", mtype)
               IN  group' = [group EXCEPT !.class = "HDF5Group", !.v2 = r.v2,
                                          !.err = r.err, !.mtype = mtype,
                                          !.seen = @ \cup {mtype}, !.n = @ + 1]
          ELSE group' = [group EXCEPT
                            !.class = IF mtype \in DataTypes THEN "HDF5Data" ELSE @,
                            !.err = "", !.mtype = mtype,
                            !.seen = @ \cup {mtype}, !.n = @ + 1]
    /\ UNCHANGED <<arena, lparams, last, codec, bison, tokzr, parser, dparser,
                   hdf, shared, heap>>

\* obj.header_msg(*args) on an HDF5Group
GroupDeliver ==
    /\ group.class = "HDF5Group" /\ group.n < MaxDelivered /\ group.err = ""
    /\ \E mtype \in MsgTypes :
          LET r == GroupHeaderMsg(group.v2, mtype)
          IN  group' = [group EXCEPT !.v2 = r.v2, !.err = r.err, !.mtype = mtype,
                                     !.seen = @ \cup {mtype}, !.n = @ + 1]
    /\ UNCHANGED <<arena, lparams, last, codec, bison, tokzr, parser, dparser,
                   hdf, shared, heap>>

\* the next object header: a new HDF5Object
GroupNext ==
    /\ group.n > 0
    /\ group' = NewGroup
    /\ UNCHANGED <<arena, lparams, last, codec, bison, tokzr, parser, dparser,
                   hdf, shared, heap>>

NoCall == [op |-> "Layout", err |-> "", ret |-> None, len0 |-> 0, open0 |-> FALSE]

\* Layout.__init__
Init ==
    /\ arena = << NewDict(None, NoName) >>
    /\ lparams = <<>>
    /\ last = NoCall
    /\ codec = CodecIdle
    /\ bison = BisonStart
    /\ tokzr = NoTokenizer
    /\ parser = NewParser
    /\ dparser = NewDParser
    /\ hdf = NoHDF5
    /\ shared = NoShared
    /\ heap = NoHeap
    /\ group = NewGroup

(* ---------------------------------------------------------------------- *)
(* Specifications                                                         *)
(* ---------------------------------------------------------------------- *)
\* every operation that appends to the arena
Next ==
    \/ DictSetData({"a"}, {TypeName("<f8"), TypeName("b")}, {<<>>}, {0, 3})
    \/ DictSetDict({"a"})
    \/ DictSetList({"a"})
    \/ GetDict({"a"})
    \/ GetList({"a"})
    \/ ParamFixed({"a"}, {2, -2})
    \/ ParamDynamic({"a"}, {TypeName("<i4"), TypeName("<f8")}, {None, 3})
    \/ TypeCompound({"a"})
    \/ TypeTypedef({"a"}, {TypeName("<f8"), TypeName("b"), TypeNone}, {<<>>}, {None, 3})
    \/ TypeSet({"a"}, {TypeName("<f8")}, {<<>>}, {0, 8})
    \/ TypeClose

Spec == Init /\ [][Next]_vars

\* the dimension codec on its own
NextCodec ==
    \/ CodecEncode \/ CodecDecode
    \/ CodecEncodeShape \/ CodecDecodeShape
    \/ AddressNew \/ AddressRead
    \/ CodecReset

SpecCodec == Init /\ [][NextCodec]_vars

\* nested dicts with their items, parameters and types
NextScope ==
    \/ GetDict(Names)
    \/ DictSetData(Names, {TypeName("<f8")}, {<<>>}, {0})
    \/ ParamFixed(Names, {2})
    \/ ParamDynamic(Names, {TypeName("<i4")}, {None})
    \/ TypeCompound(Names)

SpecScope == Init /\ [][NextScope]_vars

\* one dict with compound types, their members and data of those types
NextType ==
    \/ TypeCompound({"pt"})
    \/ TypeSet({"x", "y"}, {TypeName("<f8"), TypeName("|c4")}, {<<>>, <<3>>}, {0, 8})
    \/ TypeSetDict({"x"})
    \/ TypeClose
    \/ TypeRead
    \/ DictSetData({"p"}, {TypeName("<f8"), TypeName("|c4")}, {<<>>, <<3>>}, {0, 8})

SpecType == Init /\ [][NextType]_vars

\* typedefs with their alignments, and parameters of primitive and defined types
NextTypedef ==
    \/ TypeTypedef({"t", "u"}, {TypeName("<i4"), TypeName("<f8")}, {<<>>, <<3>>},
                   {None, 0, 8, 3, Address(0).v})
    \/ TypeCompound({"t"})
    \/ TypeClose
    \/ ParamDynamic({"n"}, {TypeName("<i4"), TypeName("<f8"), TypeName("|c4"), TypeNone},
                    {None})

SpecTypedef == Init /\ [][NextTypedef]_vars

\* the table-driven parser under every table and every token stream
NextBison ==
    \/ BisonToken \/ BisonShift \/ BisonReduce \/ BisonError \/ BisonAccept
    \/ BisonReset

SpecBison == Init /\ [][NextBison]_vars

\* the two tokenizers under their callers
NextTokens ==
    \/ TokzrNew \/ TokzrNext \/ TokzrPeek \/ TokzrClear
    \/ ParserTokenize \/ ParserNextToken \/ ParserPutBack

SpecTokens == Init /\ [][NextTokens]_vars

\* the two parsers on the tokens that move between dicts
NextParse ==
    \/ ParserDotDot \/ ParserSlash \/ ParserSymbolSlash(Names)
    \/ DParserDotDot \/ DParserSlash \/ DParserSymbolSlash \/ DParserNew

SpecParse == Init /\ [][NextParse]_vars

\* the construction of an HDF5 reader
NextHDF5 ==
    \/ HDF5Open \/ HDF5Probe \/ HDF5Superblock \/ HDF5Walk \/ HDF5Drop
    \/ HDF5Symtab \/ HDF5Layout

SpecHDF5 == Init /\ [][NextHDF5]_vars

\* object headers read from a file
NextShared == SharedFile \/ SharedOHeader \/ SharedDrop

SpecShared == Init /\ [][NextShared]_vars

\* fractal heaps read from a file
NextHeap == HeapFile \/ HeapWalk \/ HeapDrop

SpecHeap == Init /\ [][NextHeap]_vars

\* the header messages of one object after another
NextGroup == ObjectHeaderMsg \/ GroupDeliver \/ GroupNext

SpecGroup == Init /\ [][NextGroup]_vars

(* ---------------------------------------------------------------------- *)
(* Properties                                                             *)
(* ---------------------------------------------------------------------- *)
AppendingOps ==
    {"LDict.set", "LDict.getdict", "LDict.getlist", "DictParams.call", "DictTypes.call"}

\* what makes an arena entry the item it is: its kind, parent and name, and for
\* a datum or a parameter every field (a type's size and alignment and a dict's
\* maps grow in place)
SameItem(a, b) ==
    /\ a.itype = b.itype
    /\ a.parent = b.parent
    /\ a.name = b.name
    /\ a.itype \in {D_DATA, D_PARAM} => a = b

IdsKept ==
    /\ Len(arena') >= Len(arena)
    /\ \A i \in Ids(arena) : SameItem(Item(arena', i), Item(arena, i))
    /\ (last'.op \in AppendingOps /\ last'.err = "" /\ Len(arena') > Len(arena))
          => /\ last'.ret = Len(arena)
             /\ last'.len0 = Len(arena)

\* C1: every successful add_item, add_param and add_type returns the arena
\* length just before the call; the items under the ids given out earlier stay
\* in place, unmoved and unreplaced; id 0 is always the root dict.
C1_IdStability ==
    /\ [](Item(arena, 0).itype = D_DICT /\ Item(arena, 0).parent = None)
    /\ [][IdsKept]_vars

\* three appends of three kinds, each under the id it was given
C1_Witness ==
    /\ Len(arena) = 4
    /\ Item(arena, 1).itype = D_PARAM
    /\ Item(arena, 2).itype = D_TYPE
    /\ Item(arena, 3).itype = D_DATA
    /\ last.op = "LDict.set" /\ last.err = "" /\ last.ret = 3

\* C2: decode_dim(encode_dim(d)) is d for a literal d >= 0, and is the
\* reference to the same parameter with the same offset for a reference (p, k),
\* p >= 1 and k in -31..31.
C2_CodecRoundTrip ==
    codec.pc = "decoded" =>
        IF codec.in.k = "int"
        THEN codec.out = LitDim(codec.in.d)
        ELSE IsRef(codec.out) /\ RefOf(codec.out) = RefOf(codec.in)

\* C3: every encoded parameter reference is below -64, out of the literal range.
C3_EncodedRefBelowMinus64 ==
    (codec.pc \in {"encoded", "decoded"} /\ IsRef(codec.in)) => codec.enc < -64

\* the containers from an item up to the root, by parent ids
RECURSIVE Up(_, _)
Up(ar, i) ==
    IF Item(ar, i).parent = None THEN {i} ELSE {i} \cup Up(ar, Item(ar, i).parent)

\* the dicts on the chain of d whose own parameter (type) map holds the name
ParamHolders(ar, d, n) ==
    {e \in Up(ar, d) : Item(ar, e).itype = D_DICT /\ n \in DOMAIN Item(ar, e).params}
TypeHolders(ar, d, n) ==
    {e \in Up(ar, d) : Item(ar, e).itype = D_DICT /\ n \in DOMAIN Item(ar, e).types}

\* the holder nearest to where the chain starts: every other holder encloses it
Nearest(ar, holders) == CHOOSE e \in holders : \A f \in holders : f \in Up(ar, e)

Resolves(r, ar, holders, map) ==
    IF holders = {} THEN r.err = "KeyError"
    ELSE r.err = "" /\ r.id = map[Nearest(ar, holders)]

\* C4: a parameter name, and likewise a type name, looked up from a dict
\* resolves to the binding of the nearest dict on the chain to the root whose
\* own map holds it, and the lookup raises KeyError exactly when none does.
\* (LDict.get reads the dict's own item map and nothing else: LDictGet.)
C4_ScopeClosure ==
    \A d \in IdsOf(arena, D_DICT), n \in Names :
        LET ph == ParamHolders(arena, d, n)
            th == TypeHolders(arena, d, n)
            pmap == [e \in ph |-> Item(arena, e).params[n]]
            tmap == [e \in th |-> Item(arena, e).types[n]]
        IN  /\ Resolves(_get_paramid(arena, d, n), arena, ph, pmap)
            /\ Resolves(DictParamsGetItem(arena, d, n), arena, ph, pmap)
            /\ Resolves(TypeIdOfName(arena, d, n), arena, th, tmap)
            /\ Resolves(DictTypesGetItem(arena, d, n), arena, th, tmap)

\* a parameter of an inner dict shadows the one of the root, and a name that no
\* dict holds is looked up from the inner dict
C4_Witness ==
    \E d \in IdsOf(arena, D_DICT) :
        /\ Item(arena, d).parent = 0
        /\ "a" \in DOMAIN Item(arena, d).params
        /\ "a" \in DOMAIN Item(arena, 0).params
        /\ Item(arena, d).params["a"] # Item(arena, 0).params["a"]
        /\ _get_paramid(arena, d, "a").id = Item(arena, d).params["a"]
        /\ _get_paramid(arena, d, "b").err = "KeyError"

IsDictItem(it) == it.itype \in {D_DATA, D_DICT, D_LIST}

\* C5: set(n, value) on a dict that already holds an item named n raises and
\* leaves the arena as it was.
C5_SetExistingNameRaises ==
    [][(last'.op = "LDict.set" /\ Len(arena') > Len(arena))
          => ~ \E i \in Ids(arena) :
                  /\ IsDictItem(Item(arena, i))
                  /\ Item(arena, i).parent = Item(arena', -1).parent
                  /\ Item(arena, i).name = Item(arena', -1).name]_vars

\* C6: a parameter (type) name that a dict's own map holds is never declared
\* again in that dict: the call raises and the binding keeps denoting the
\* first item.
C6_RedeclarationRaises ==
    [][\A d \in IdsOf(arena, D_DICT) :
          /\ \A n \in DOMAIN Item(arena, d).params :
                Item(arena', d).params[n] = Item(arena, d).params[n]
          /\ \A n \in DOMAIN Item(arena, d).types :
                Item(arena', d).types[n] = Item(arena, d).types[n]]_vars

\* C7: set(name, value) on a type is accepted, and appends one member, exactly
\* when the type is Open, and is rejected with the membership unchanged when it
\* is Closed; a read of the members is rejected while the type is Open and
\* accepted once it is Closed.
C7_OpenClosedGating ==
    /\ last.op = "LType.set" =>
          IF last.open0
          THEN /\ last.err # ErrClosedType
               /\ last.err = "" => Len(arena) = last.len0 + 1
          ELSE /\ last.err = ErrClosedType
               /\ Len(arena) = last.len0
    /\ last.op = "LType.read" => (last.err = ErrOpenType <=> last.open0)

\* C8: a new compound starts Open; close makes an Open type Closed and fails,
\* changing nothing, on a type that is not Open; a type that is Closed is never
\* Open again, whatever is set or closed afterwards.
C8_OneWayLifeCycle ==
    [][/\ (last'.op = "DictTypes.call" /\ last'.err = "") => IsOpen(arena', last'.ret)
       /\ (last'.op = "LType.close" /\ last'.err = "")
             => /\ last'.open0
                /\ \E t \in IdsOf(arena, D_TYPE) : IsOpen(arena, t) /\ ~IsOpen(arena', t)
       /\ (last'.op = "LType.close" /\ last'.err # "")
             => ~last'.open0 /\ arena' = arena
       /\ \A t \in IdsOf(arena, D_TYPE) : ~IsOpen(arena, t) => ~IsOpen(arena', t)]_vars

\* the members of a type, in the order they were set
RECURSIVE MembersFrom(_, _, _)
MembersFrom(ar, t, i) ==
    IF i >= Len(ar) THEN <<>>
    ELSE (IF Item(ar, i).parent = t THEN <<i>> ELSE <<>>) \o MembersFrom(ar, t, i + 1)
Members(ar, t) == MembersFrom(ar, t, t + 1)

RoundUp(size, a) == ((size + a - 1) \div a) * a

\* the size after the members ms, starting from size
RECURSIVE RunningSize(_, _, _)
RunningSize(ar, ms, size) ==
    IF ms = <<>> \/ size = None THEN size
    ELSE LET msize == LDataSize(ar, Head(ms))
         IN  IF msize = None THEN None
             ELSE RunningSize(ar, Tail(ms),
                              RoundUp(size, LDataAlignment(ar, Head(ms))) + msize)

MaxOf(S) == CHOOSE m \in S : \A x \in S : x <= m
Abs(x) == IF x < 0 THEN -x ELSE x

\* C9: once members have been set in a compound, its alignment (kept negated
\* while the type is open) is the largest effective alignment of its members,
\* and its size is what rounding up to each member's alignment and adding the
\* member's size gives, member by member, None from the first unknown size on.
C9_RunningSizeAndAlignment ==
    \A t \in IdsOf(arena, D_TYPE) :
        LET ms == Members(arena, t)
        IN  (Item(arena, t).members = None /\ ms # <<>>) =>
               /\ Abs(Item(arena, t).align)
                     = MaxOf({LDataAlignment(arena, ms[k]) : k \in DOMAIN ms})
               /\ Item(arena, t).size = RunningSize(arena, ms, 0)

\* C10: the effective alignment of a datum is its explicit alignment if it has
\* one, else the alignment of its defined type, else the default alignment of
\* its primitive: the size, and half the size for a complex.
C10_AlignmentInheritance ==
    \A i \in IdsOf(arena, D_DATA) :
        LET item == Item(arena, i)
        IN  LDataAlignment(arena, i)
               = IF item.align # None /\ item.align > 0 THEN item.align
                 ELSE IF item.typeid > 0 THEN Item(arena, item.typeid).align
                 ELSE prim[-item.typeid].align

\* the size of the type of a datum: a primitive's, a defined type's, 0 for {}
TypeSize(ar, typeid) ==
    IF typeid = 0 THEN 0
    ELSE IF typeid < 0 THEN prim[-typeid].size
    ELSE Item(ar, typeid).size

\* the product of the dimensions of a stored shape, None as soon as one of
\* them is unlimited or refers to a parameter that has no value
RECURSIVE ShapeCount(_, _)
ShapeCount(ar, shape) ==
    IF shape = <<>> THEN 1
    ELSE LET d == DimValue(ar, Head(shape))
             rest == ShapeCount(ar, Tail(shape))
         IN  IF d = None \/ d < 0 \/ rest = None THEN None ELSE d * rest

\* C11: the size of a datum is the size of its type for a scalar, the size of
\* its type times the product of its dimensions when all of them are fixed,
\* for primitive and for defined types alike, and None when a dimension is
\* unlimited or refers to a dynamic parameter.
C11_ShapeSize ==
    \A i \in IdsOf(arena, D_DATA) :
        LET item == Item(arena, i)
            tsize == TypeSize(arena, item.typeid)
            count == ShapeCount(arena, item.shape)
        IN  LDataSize(arena, i)
               = IF tsize = None \/ count = None THEN None ELSE tsize * count

\* a shape as given that the sentinel rule forbids: -1 after the first
\* dimension, or a literal below -1 anywhere
BadShape(shape) ==
    \E i \in DOMAIN shape :
        /\ shape[i].k = "int"
        /\ shape[i].d < -1 \/ (shape[i].d = -1 /\ i > 1)

\* C12: encode_shape rejects exactly the shapes that have -1 at an index other
\* than 0 or a literal below -1 at any index, so that in an encoded shape -1
\* occurs only as the first dimension.
C12_UnlimitedOnlyFirst ==
    /\ codec.pc = "shape" =>
          /\ ~BadShape(codec.shape)
          /\ \A i \in DOMAIN codec.encs : codec.encs[i] = -1 => i = 1
    /\ codec.pc = "shape rejected" => BadShape(codec.shape)

\* C15: Address(a) is accepted exactly for a >= -1; the integer it is stored
\* as is negative, so it is neither 0 (unspecified) nor a positive alignment
\* and passes the power-of-two test of _Data.__init__ untouched; and its
\* address property gives a back.
C15_AddressValueType ==
    /\ codec.pc \in {"address", "address read"} =>
          /\ codec.in.d >= -1
          /\ codec.enc < 0
          /\ ~IllegalAlign(codec.enc)
    /\ codec.pc = "address read" => codec.out = LitDim(codec.in.d)
    /\ codec.pc = "address rejected" => codec.in.d < -1

\* an absolute address stored as a negative integer and read back
C15_Witness ==
    /\ codec.pc = "address read"
    /\ codec.in.d = MaxAddress
    /\ codec.enc = -2 - MaxAddress
    /\ codec.out.d = MaxAddress

\* typeid names an integer primitive, or a typedef whose one member is a
\* scalar without filter of such a type; n bounds the depth of the descent
RECURSIVE ResolvesToInteger(_, _, _)
ResolvesToInteger(ar, typeid, n) ==
    IF typeid <= 0
    THEN -typeid \in 1..Len(prim) /\ prim[-typeid].kind \in {"u", "i"}
    ELSE /\ n > 0
         /\ Item(ar, typeid).itype = D_TYPE
         /\ Item(ar, typeid).members \in Ids(ar)
         /\ LET m == Item(ar, Item(ar, typeid).members)
            IN  /\ m.itype = D_DATA
                /\ m.shape = <<>> /\ m.filt = None
                /\ ResolvesToInteger(ar, m.typeid, n - 1)

\* C13: the acceptance test admits, of the ids 0..50, exactly the primitives of
\* kind u or i; every dynamic parameter in the arena has a datatype that
\* resolves through scalar, unfiltered typedefs to such a primitive; and a
\* declaration that is rejected appends nothing.
C13_ParamDatatypeInteger ==
    /\ [](\A id \in 0..Len(prim) :
             ~NotIntegerPrim(-id) <=> (id >= 1 /\ prim[id].kind \in {"u", "i"}))
    /\ [](\A p \in IdsOf(arena, D_PARAM) :
             Item(arena, p).typeid # None
                => ResolvesToInteger(arena, Item(arena, p).typeid, Len(arena)))
    /\ [][(last'.op = "DictParams.call" /\ last'.err # "")
             => arena' = arena /\ lparams' = lparams]_vars

\* a parameter declared with a typedef of an integer primitive, after a
\* typedef that no parameter can have
C13_Witness ==
    /\ last.op = "DictParams.call" /\ last.err = ""
    /\ Item(arena, last.ret).itype = D_PARAM
    /\ Item(arena, last.ret).typeid > 0
    /\ Item(arena, Item(arena, last.ret).typeid).itype = D_TYPE

\* C14: add_type accepts an explicit alignment only if it is a positive power
\* of two: a typedef that was accepted was given no alignment or such a one
\* (never 0, never an address), and an add_type that is rejected leaves the
\* arena as it was.
C14_TypedefAlignment ==
    [][last'.op = "DictTypes.call" =>
          /\ (last'.err = "" /\ Len(arena') = Len(arena) + 2) =>
                LET align == Item(arena', -1).align
                IN  align = None \/ (align > 0 /\ BitAnd(align, align - 1) = 0)
          /\ last'.err # "" => arena' = arena]_vars

\* C16: getdict(name) and getlist(name) append the container and return its
\* id when the dict holds no item of that name, return the item already there,
\* appending nothing, when the dict holds one, and append nothing when they
\* fail.
C16_GetOrCreateIdempotent ==
    [][last'.op \in {"LDict.getdict", "LDict.getlist"} =>
          /\ last'.err = "" =>
                LET it == Item(arena', last'.ret)
                    present == {i \in Ids(arena) :
                                   /\ IsDictItem(Item(arena, i))
                                   /\ Item(arena, i).parent = it.parent
                                   /\ Item(arena, i).name = it.name}
                IN  IF present = {}
                    THEN Len(arena') = Len(arena) + 1 /\ last'.ret = Len(arena)
                    ELSE arena' = arena /\ last'.ret \in present
          /\ last'.err # "" => arena' = arena]_vars

\* the number of parent steps from item i to the root dict, None if the walk
\* has not arrived after n steps
RECURSIVE StepsToRoot(_, _, _)
StepsToRoot(ar, i, n) ==
    IF i = 0 THEN 0
    ELSE IF n = 0 \/ Item(ar, i).parent \notin Ids(ar) THEN None
    ELSE LET up == StepsToRoot(ar, Item(ar, i).parent, n - 1)
         IN  IF up = None THEN None ELSE up + 1

\* C17: every item but the root stores the id of an earlier item as its
\* parent, that item is a dict, a list or a type, and the walk by parent ids
\* arrives at the root dict, which alone has no parent.
C17_ParentIds ==
    /\ Item(arena, 0).itype = D_DICT /\ Item(arena, 0).parent = None
    /\ \A i \in Ids(arena) \ {0} :
          LET p == Item(arena, i).parent
          IN  /\ p \in 0..(i - 1)
              /\ Item(arena, p).itype \in {D_DICT, D_LIST, D_TYPE}
              /\ StepsToRoot(arena, i, Len(arena)) # None

\* a datum that is the member of a typedef declared in a dict under the root:
\* three parent steps away from the root
C17_Witness ==
    \E i \in IdsOf(arena, D_DATA) :
        /\ Item(arena, Item(arena, i).parent).itype = D_TYPE
        /\ StepsToRoot(arena, i, Len(arena)) = 3

C19_DotDotAtRoot ==
    [][/\ (dparser' # dparser /\ dparser'.op = ".." /\ dparser.containers = <<0>>) =>
             /\ dparser'.containers = dparser.containers
             /\ dparser'.syntax = "" /\ dparser'.raised = ""
             /\ arena' = arena
       /\ (dparser' # dparser /\ dparser'.op = ".." /\ Len(dparser.containers) > 1) =>
             dparser'.containers
                = SubSeq(dparser.containers, 1, Len(dparser.containers) - 1)
       /\ (parser' # parser /\ parser'.op = ".." /\ parser.container = 0) =>
             /\ parser'.container = 0 /\ parser'.err = ""
             /\ arena' = arena
       /\ (parser' # parser /\ parser'.op = ".." /\ parser.container # 0
              /\ Item(arena, Item(arena, parser.container).parent).itype = D_DICT) =>
             /\ parser'.container = Item(arena, parser.container).parent
             /\ arena' = arena
       /\ dparser'.containers # <<>> /\ Head(dparser'.containers) = 0
       /\ parser'.container \in 0..(Len(arena') - 1)
       /\ StepsToRoot(arena', parser'.container, Len(arena')) # None]_vars

\* the token that follows token a in the input of tokenizer t
Following(t, a) ==
    IF a.k = "eof" \/ a.i >= Len(t.input) THEN EofToken
    ELSE Token(t.input[a.i + 1], a.i + 1)

\* C20: a peek or next that follows a peek returns the token that peek
\* returned; a peek or next that follows a next returns the token following
\* in the input, the first call returns the first token, and after the end
\* of the input the token is EOF; a next_token that follows put_back_token
\* returns the token put back; after EOF every call returns EOF.
C20_OneTokenLookahead ==
    [][/\ (tokzr'.n = tokzr.n + 1 /\ tokzr'.op \in {"peek", "next"}) =>
             /\ tokzr.op = "peek" => tokzr'.ret = tokzr.ret
             /\ tokzr.op = "next" => tokzr'.ret = Following(tokzr, tokzr.ret)
             /\ tokzr.op = "new" => tokzr'.ret = Following(tokzr, Token("none", 0))
             /\ tokzr.ret = EofToken => tokzr'.ret = EofToken
       /\ (parser'.n = parser.n + 1 /\ parser'.op = "next_token") =>
             /\ parser.op = "put_back_token" =>
                   parser'.ret = parser.ret /\ parser'.err = ""
             /\ (parser.op = "next_token" /\ parser.err = "" /\ parser.ret = EofToken) =>
                   parser'.ret = EofToken /\ parser'.err = ""]_vars

\* C21: no call of the tokenizer fails to return; a call that scans an error
\* token returns the place of the unrecognized character and leaves the
\* tokenizer one character after it; and the call that follows a next which
\* returned an error token returns the token following it in the input,
\* whether or not a peek had come before that next.
C21_TokenizerProgress ==
    /\ [](tokzr.pc # "hung")
    /\ [][(tokzr'.n = tokzr.n + 1 /\ tokzr'.op \in {"peek", "next"}) =>
             /\ (tokzr'.ret.k = "error" /\ tokzr'.pos # tokzr.pos) =>
                   /\ tokzr.input[tokzr'.ret.i] = "error"
                   /\ tokzr'.ret.i = tokzr.pos + 1
                   /\ tokzr'.pos = tokzr.pos + 1
             /\ (tokzr.op = "next" /\ tokzr.ret.k = "error") =>
                   tokzr'.ret = Following(tokzr, tokzr.ret)]_vars

\* C22: the offsets probed are 0, 512, 1024, 2048, ... in this order, each
\* with its eight bytes before the end of the file; the search stops at the
\* first of them that holds the signature and takes it as the base address
\* guess; it fails exactly when none of the probed offsets holds the
\* signature; and every turn of the loop that does not end the search moves
\* to a larger offset, so that the search ends for every file size.
C22_SuperblockSearch ==
    /\ [](/\ \A i \in 1..Len(hdf.probes) :
               /\ hdf.probes[i] = ProbeOffset(i - 1)
               /\ hdf.probes[i] + 8 <= hdf.size
          /\ \A i \in 1..(Len(hdf.probes) - 1) : hdf.probes[i] \notin hdf.sigs
          /\ hdf.pc \in {"super", "walk", "ready"} =>
               /\ hdf.probes # <<>>
               /\ hdf.base0 = hdf.probes[Len(hdf.probes)]
               /\ hdf.base0 \in hdf.sigs
          /\ hdf.err = "HDF5 superblock missing" =>
               /\ \A i \in 1..Len(hdf.probes) : hdf.probes[i] \notin hdf.sigs
               /\ ProbeOffset(Len(hdf.probes)) + 8 >= hdf.size
               /\ hdf.base0 = None)
    /\ [][(hdf.pc = "search" /\ hdf'.pc = "search") =>
             /\ hdf'.addr > hdf.addr
             /\ hdf.addr + 8 < hdf.size]_vars

\* the signature stands at 1024 and at 2048: the search has stopped at 1024,
\* its third probe
C22_Witness ==
    /\ hdf.pc = "super"
    /\ hdf.base0 = 1024
    /\ {1024, 2048} \subseteq hdf.sigs
    /\ Len(hdf.probes) = 3

\* C23: when the construction of the reader has ended, with the reader ready
\* or with an error, the file it opened is closed.
C23_HandleReleased == [](hdf.pc \in {"ready", "failed"} => ~hdf.open)

\* the unshared messages of type mtype in header a of file hs
Unshared(hs, a, mtype) ==
    {i \in 1..Len(hs[a]) : hs[a][i].mtype = mtype /\ ~hs[a][i].shared}

\* C24: reading an object header ends without error, whatever its shared
\* messages point to; and each shared message whose pointed-to header holds
\* an unshared message of its type is delivered as the first such message.
C24_SharedResolution ==
    [](shared.pc = "done" =>
         /\ shared.err = ""
         /\ Len(shared.msgs) = Len(shared.headers[shared.at])
         /\ \A i \in 1..Len(shared.msgs) :
               LET m == shared.headers[shared.at][i]
                   found == IF m.shared
                            THEN Unshared(shared.headers, m.target, m.mtype)
                            ELSE {}
               IN  found # {} =>
                     \E j \in found :
                        /\ \A k \in found : j <= k
                        /\ shared.msgs[i] = shared.headers[m.target][j])

\* the entries of block blk of heap F in the rows of indirect blocks
IndirectEntries(F, blk) ==
    {blk[e] : e \in (F.mdr * F.width + 1)..Len(blk)} \ {-1}

\* C25: the walk of a heap whose indirect blocks form a tree ends without
\* error; every indirect block but the root is read at an address stored in
\* an indirect entry of a block, which is not the root address; and a direct
\* block of row r is read with startsz bytes for r <= 1 and with
\* startsz * 2^(r-1) bytes for r >= 2.
C25_FractalHeapWalk ==
    [](heap.pc = "done" =>
         LET F == heap.file
         IN  /\ heap.err = ""
             /\ \A i \in 2..Len(heap.reads) :
                   heap.reads[i].sig = "FHIB" =>
                      /\ heap.reads[i].addr # F.root
                      /\ \E b \in DOMAIN F.blocks :
                            heap.reads[i].addr \in IndirectEntries(F, F.blocks[b])
             /\ \A i \in 1..Len(heap.reads) :
                   (heap.reads[i].sig = "FHDB" /\ F.nrows1 # 0) =>
                      \E b \in DOMAIN F.blocks, e \in 1..(F.mdr * F.width) :
                         LET r == (e - 1) \div F.width
                         IN  /\ F.blocks[b][e] = heap.reads[i].addr
                             /\ heap.reads[i].size
                                   = IF r <= 1 THEN F.startsz
                                     ELSE F.startsz * 2^(r - 1))

\* C26: while the parse runs, the stack is not empty and the state on its
\* top is the current state; a shift makes the stack one entry longer; a
\* reduction by a rule with n right-hand sides, n = 0 included, goes on with
\* the entries below the top n as they were and one entry pushed on them.
C26_StackDiscipline ==
    /\ [](bison.pc = "run" =>
            /\ bison.stack # <<>>
            /\ bison.stack[Len(bison.stack)] = bison.state)
    /\ [][/\ (bison' # bison /\ bison'.op = "shift") =>
               /\ Len(bison'.stack) = Len(bison.stack) + 1
               /\ SubSeq(bison'.stack, 1, Len(bison.stack)) = bison.stack
          /\ (bison' # bison /\ bison'.op = "reduce") =>
               LET kept == Len(bison.stack) - bison'.nargs
               IN  /\ bison'.pc = "run"
                   /\ Len(bison'.stack) = kept + 1
                   /\ SubSeq(bison'.stack, 1, kept) = SubSeq(bison.stack, 1, kept)]_vars

\* C27: the search for a state that shifts the error token always ends: the
\* parse goes on from a state left on the stack with the error state pushed on
\* it, or it ends with result 1 and the stack used up; and a parse that has
\* ended has result 0 or 1.
C27_RecoveryTerminates ==
    /\ [](bison.pc # "hung")
    /\ [](bison.pc = "done" => bison.result \in {0, 1})
    /\ [][(bison' # bison /\ bison'.op = "error") =>
             \/ /\ bison'.pc = "run"
                /\ \E left \in 0..Len(bison.stack) :
                      /\ Len(bison'.stack) = left + 1
                      /\ SubSeq(bison'.stack, 1, left) = SubSeq(bison.stack, 1, left)
                      /\ bison'.stack[left + 1] = bison'.state
             \/ /\ bison'.pc = "done"
                /\ bison'.result = 1]_vars

\* C28: every entry layout.params[pid] is the id of a dynamic parameter of
\* the arena whose pid is that index; no fixed parameter is in layout.params;
\* and a call of d.params(...) that raises leaves the arena and layout.params
\* as they were.
C28_ParamRegistry ==
    /\ [](/\ \A k \in 1..Len(lparams) :
               /\ lparams[k] \in IdsOf(arena, D_PARAM)
               /\ Item(arena, lparams[k]).typeid # None
               /\ Item(arena, lparams[k]).pid = k - 1
          /\ \A i \in IdsOf(arena, D_PARAM) :
               Item(arena, i).typeid = None =>
                  \A k \in 1..Len(lparams) : lparams[k] # i)
    /\ [][(last'.op = "DictParams.call" /\ last'.err # "") =>
             arena' = arena /\ lparams' = lparams]_vars

\* C29: a header message delivered to a group leaves a mark that is set as
\* it was; it sets an unset mark to v1 if its type is 17, to v2 if its type
\* is 2, 6 or 10, and leaves it unset otherwise; and its delivery raises an
\* error if its type is 17 and a message of type 2, 6 or 10 was delivered
\* before, or its type is 2, 6 or 10 and a message of type 17 was.
C29_GroupKind ==
    [][(group'.n = group.n + 1 /\ group'.class = "HDF5Group") =>
         /\ group.v2 # "None" => group'.v2 = group.v2
         /\ group.v2 = "None" =>
               group'.v2 = IF group'.mtype = 17 THEN "False"
                           ELSE IF group'.mtype \in {2, 6, 10} THEN "True"
                           ELSE "None"
         /\ (group'.mtype = 17 /\ group.seen \cap {2, 6, 10} # {}) => group'.err # ""
         /\ (group'.mtype \in {2, 6, 10} /\ 17 \in group.seen) => group'.err # ""]_vars

\* a symbol-table message has just been delivered, as the third message of
\* its header, to a group that an earlier message had made a v2 group: it
\* raised, and the group is v2
C29_Witness ==
    /\ group.class = "HDF5Group"
    /\ group.n = 3
    /\ group.mtype = 17 /\ group.err # ""
    /\ group.seen \cap {2, 6, 10} # {}
    /\ group.v2 = "True"

\* C30: every place of the file the reader goes to for a file-relative
\* address of the metadata is that address plus the base address, and it
\* goes nowhere for the undefined address -1.
C30_BaseAddress ==
    [](\A sk \in hdf.seeks : sk.rel # -1 /\ sk.off = sk.rel + hdf.base)

====
